---- MODULE Spec2Model ----
(***************************************************************************)
(* Voice-controlled robot arm: the plan compiler (SimpleToolsPlanner),     *)
(* the plan executor (execute_plan) and the motion primitive layer         *)
(* (AgentRobot over RobotController).                                      *)
(*                                                                         *)
(* Units: every pause is recorded in microseconds, so the fractions of a   *)
(* morse unit the controller sleeps (0.6 u, 0.4 u) stay integers.          *)
(* Dictionaries whose iteration order matters (poses, values, deltas) are  *)
(* sequences of <<key, value>> pairs in insertion order.                   *)
(***************************************************************************)
EXTENDS Integers, Sequences, FiniteSets, TLC

\* ------------------------------------------------------------------ bounds
\* Longest plan execute_plan is given.
MaxPlanLen == 2

\* ----------------------------------------------------------------- helpers
Max(a, b) == IF a >= b THEN a ELSE b
Min(a, b) == IF a <= b THEN a ELSE b

Has(d, k) == k \in DOMAIN d

\* Argument values of a step: a number, or something int()/float() rejects.
Num(n) == <<"num", n>>
Bad == <<"bad", 0>>
IsNum(v) == v[1] = "num"

\* One step of a plan: {"call": call, "args": args}.
Step(call, args) == [call |-> call, args |-> args]

\* dict.get(key, default) on a sequence of <<key, value>> pairs.
RECURSIVE PairGet(_, _, _)
PairGet(d, k, default) ==
    IF d = <<>> THEN default
    ELSE IF Head(d)[1] = k THEN Head(d)[2]
    ELSE PairGet(Tail(d), k, default)

\* ------------------------------------------------------------- environment
\* MOTORS of the controller, in declaration order.
JointOrder == <<"shoulder_pan", "shoulder_lift", "elbow_flex",
                "wrist_flex", "wrist_roll", "gripper">>
Joints == {JointOrder[i] : i \in 1..Len(JointOrder)}

NominalPose == [i \in 1..Len(JointOrder) |-> <<JointOrder[i], 2048>>]

\* Joint-limit documents the process may find: none, or one that lists only
\* some joints with a range narrower than the nominal one.
NoLimitsFile == [present |-> FALSE, data |-> <<>>]
NarrowLimitsFile ==
    [present |-> TRUE,
     data |-> << <<"wrist_roll", 1800, 2300>>, <<"wrist_flex", 1900, 2150>>,
                 <<"shoulder_pan", 1900, 2200>> >>]
LimitsFiles == {NoLimitsFile, NarrowLimitsFile}

\* load_joint_limits: the document's entries when it yields any, otherwise
\* the nominal range for the six joints.
load_joint_limits(f) ==
    IF f.present /\ f.data # <<>>
    THEN [j \in {f.data[i][1] : i \in 1..Len(f.data)} |->
            LET i == CHOOSE i \in 1..Len(f.data) : f.data[i][1] = j
            IN  <<f.data[i][2], f.data[i][3]>>]
    ELSE [j \in Joints |-> <<0, 4095>>]

\* Calibration documents: none (defaults), or one with its own home pose and
\* tap geometry including a safe-lift pose.
NoCalibFile == [present |-> FALSE, home_pose |-> <<>>, tap |-> <<>>]
TableCalibFile ==
    [present |-> TRUE,
     home_pose |-> << <<"shoulder_pan", 2048>>, <<"shoulder_lift", 1400>>,
                      <<"elbow_flex", 2600>>, <<"wrist_flex", 2300>>,
                      <<"wrist_roll", 2048>>, <<"gripper", 2048>> >>,
     tap |-> [wrist_flex_down |-> 2350, wrist_flex_up |-> 2250,
              safe_lift_pose |-> << <<"shoulder_lift", 1500>>,
                                    <<"wrist_flex", 2250>> >>]]
\* A calibration that records the home pose of the table and nothing about
\* tapping.
HomeOnlyCalibFile ==
    [present |-> TRUE, home_pose |-> TableCalibFile.home_pose, tap |-> <<>>]
CalibFiles == {NoCalibFile, TableCalibFile, HomeOnlyCalibFile}

load_calibration(f) ==
    IF f.present THEN [home_pose |-> f.home_pose, tap |-> f.tap]
    ELSE [home_pose |-> NominalPose, tap |-> <<>>]

\* Reference-motion catalogues: none, one that parses, one that does not.
NoRefsFile == [present |-> FALSE, parses |-> TRUE, home_pose |-> <<>>,
               motions |-> <<>>]
CatalogRefsFile ==
    [present |-> TRUE, parses |-> TRUE,
     home_pose |-> << <<"shoulder_lift", 1450>> >>,
     motions |->
       [yes |-> << [positions |-> << <<"wrist_flex", 2500>> >>,
                    duration |-> 300000],
                   [positions |-> << <<"wrist_flex", 1700>> >>,
                    duration |-> 7000000] >>,
        dance |-> << [positions |-> << <<"shoulder_pan", 2600>>,
                                       <<"elbow_flex", 1800>> >>,
                      duration |-> 0] >>]]
BrokenRefsFile == [present |-> TRUE, parses |-> FALSE, home_pose |-> <<>>,
                   motions |-> <<>>]
RefsFiles == {NoRefsFile, CatalogRefsFile, BrokenRefsFile}

\* load_references: [raised, home_pose, motions]; json.load is unguarded.
load_references(f) ==
    IF ~f.present THEN [raised |-> FALSE, home_pose |-> <<>>, motions |-> <<>>]
    ELSE IF ~f.parses THEN [raised |-> TRUE, home_pose |-> <<>>, motions |-> <<>>]
    ELSE [raised |-> FALSE, home_pose |-> f.home_pose, motions |-> f.motions]

get_motion(name, refs) ==
    IF name \in DOMAIN refs.motions THEN refs.motions[name] ELSE <<>>

\* Where the motors stand before the arm is driven.
StartPose == [j \in Joints |-> 0]

\* ------------------------------------------------------------------- state
VARIABLES
    hw,          \* the motor bus can be opened (hardware present)
    verbose,     \* LEROBOT_VERBOSE is set
    limitsFile,  \* joint-limits document on disk
    calibFile,   \* calibration document on disk
    refsFile,    \* reference-motion catalogue on disk
    rc,          \* RobotController: [bus, simulation]
    motor,       \* last Goal_Position each motor received
    epc,         \* execute_plan: "idle", "running", "done", "raised"
    idx,         \* steps of the plan consumed so far
    step,        \* the step consumed last
    did_motion,  \* execute_plan's did_motion flag
    trace,       \* events of the last executor action
    hist,        \* kinds of steps the plan has contained so far
    osenv,       \* the process environment the planner reads
    pl,          \* SimpleToolsPlanner: its flags, last_origin and cache
    pcall,       \* the running plan() call: position, locals, return value
    wk,          \* the planner's one-thread executor: queue and running job
    calls,       \* plan() calls made so far
    mutated,     \* the caller has changed the list plan() returned last
    used         \* the cached texts, the one read or written last at the end

envVars == <<hw, verbose, limitsFile, calibFile, refsFile>>
execVars == <<rc, motor, epc, idx, step, did_motion, trace, hist>>
planVars == <<osenv, pl, pcall, wk, calls, mutated, used>>
vars == <<envVars, execVars, planVars>>

limits == load_joint_limits(limitsFile)
calib == load_calibration(calibFile)

\* -------------------------------------------------------- RobotController
\* One event of a primitive: k is "call" (a primitive was entered, j names
\* it), "write" (Goal_Position p written to motor j), "nullwrite" (a write
\* attempted on the absent bus), "simlog" (a [SIM] line for joint j),
\* "sleep" (p microseconds) or "speak".
Ev(k, j, p) == [k |-> k, j |-> j, p |-> p]

\* A primitive runs on [bus, simulation, ev, raised]; once raised is set
\* nothing further happens (the exception unwinds the call).
Machine(r) == [bus |-> r.bus, simulation |-> r.simulation, ev |-> <<>>,
               raised |-> FALSE]

Emit(m, e) == IF m.raised THEN m ELSE [m EXCEPT !.ev = Append(@, e)]

Raise(m) == [m EXCEPT !.raised = TRUE]

\* time.sleep rejects a negative length.
Sleep(m, us) == IF us < 0 THEN Raise(m) ELSE Emit(m, Ev("sleep", "", us))

\* self.motor_bus.write("Goal_Position", p, j): AttributeError when the bus
\* is None.
BusWrite(m, j, p) ==
    IF m.bus THEN Emit(m, Ev("write", j, p))
    ELSE Raise(Emit(m, Ev("nullwrite", j, p)))

\* The same write inside try/except: pass.
BusWriteGuarded(m, j, p) ==
    IF m.bus THEN Emit(m, Ev("write", j, p))
    ELSE Emit(m, Ev("nullwrite", j, p))

SimLog(m, j, p) == Emit(m, Ev("simlog", j, p))

\* "if self.simulation and VERBOSE: print ... else: motor_bus.write".
SimVerboseOrWrite(m, j, p) ==
    IF m.simulation /\ verbose THEN SimLog(m, j, p) ELSE BusWrite(m, j, p)

\* "if self.simulation: print ... else: motor_bus.write".
SimOrWrite(m, j, p) ==
    IF m.simulation THEN SimLog(m, j, p) ELSE BusWrite(m, j, p)

connect(m) ==
    IF m.raised \/ m.bus \/ m.simulation THEN m
    ELSE IF hw THEN [m EXCEPT !.bus = TRUE]
    ELSE [m EXCEPT !.simulation = TRUE, !.bus = FALSE]

disconnect(m) == [m EXCEPT !.bus = FALSE, !.simulation = FALSE]

ensure(m) == IF ~m.bus THEN connect(m) ELSE m

rest_pose == IF calib.home_pose # <<>> THEN calib.home_pose ELSE NominalPose

RECURSIVE WritePose(_, _)
WritePose(m, pose) ==
    IF pose = <<>> THEN m
    ELSE WritePose(BusWrite(m, Head(pose)[1], Head(pose)[2]), Tail(pose))

go_home(m) ==
    LET m1 == Emit(ensure(m), Ev("call", "go_home", 0))
        m2 == IF m1.simulation
              THEN (IF verbose THEN SimLog(m1, "go_home", 0) ELSE m1)
              ELSE WritePose(m1, rest_pose)
    IN  Sleep(m2, 1200000)

RECURSIVE WaveRolls(_, _)
WaveRolls(m, rolls) ==
    IF rolls = <<>> THEN m
    ELSE WaveRolls(Sleep(SimVerboseOrWrite(m, "wrist_roll", Head(rolls)),
                         350000),
                   Tail(rolls))

RECURSIVE WaveReps(_, _)
WaveReps(m, n) ==
    IF n <= 0 THEN m
    ELSE WaveReps(WaveRolls(m, <<1600, 2400, 1600, 2048>>), n - 1)

wave(m, repetitions) ==
    go_home(WaveReps(go_home(Emit(ensure(m), Ev("call", "wave", 0))),
                     repetitions))

\* One sway of dance cycle i; (-1) ** i is 1 for even i.
DanceCycle(m, i, stepSize) ==
    LET sgn == IF i % 2 = 0 THEN 1 ELSE -1
    IN  Sleep(IF m.simulation /\ verbose
              THEN SimLog(SimLog(SimLog(m, "shoulder_pan", 2048 + sgn * stepSize),
                                 "elbow_flex", 2048 + stepSize),
                          "wrist_flex", 2048 - sgn * stepSize)
              ELSE BusWrite(BusWrite(BusWrite(m, "shoulder_pan",
                                              2048 + sgn * stepSize),
                                     "elbow_flex", 2048 + stepSize),
                            "wrist_flex", 2048 - sgn * stepSize),
              400000)

\* The loop runs while the clock is before end_time; the clock advances by
\* the 0.4 s pause of each cycle.
RECURSIVE DanceLoop(_, _, _, _)
DanceLoop(m, i, stepSize, duration_us) ==
    IF i * 400000 >= duration_us \/ m.raised THEN m
    ELSE DanceLoop(DanceCycle(m, i, stepSize), i + 1, stepSize, duration_us)

dance(m, style, duration_s) ==
    DanceLoop(go_home(Emit(ensure(m), Ev("call", "dance", 0))), 0,
              IF style = "small" THEN 150 ELSE 300, duration_s * 1000000)

RECURSIVE CircleLoop(_, _, _)
CircleLoop(m, i, span) ==
    IF i >= 12 THEN m
    ELSE LET pos == 2048 + (IF i % 2 = 0 THEN span \div 2 ELSE -(span \div 2))
             m1 == IF m.simulation /\ verbose
                   THEN SimLog(SimLog(m, "shoulder_pan", pos),
                               "elbow_flex", 2048 - (pos - 2048))
                   ELSE BusWrite(BusWrite(m, "shoulder_pan", pos),
                                 "elbow_flex", 2048 - (pos - 2048))
         IN  CircleLoop(Sleep(m1, 250000), i + 1, span)

SquareSide(m, p, span) ==
    Sleep(SimOrWrite(Sleep(SimVerboseOrWrite(m, "shoulder_pan", p), 250000),
                     "elbow_flex", 2048 + span),
          250000)

SquareRound(m, span) ==
    SquareSide(SquareSide(m, 2048 - span, span), 2048 + span, span)

RECURSIVE TriangleLoop(_, _)
TriangleLoop(m, ps) ==
    IF ps = <<>> THEN m
    ELSE TriangleLoop(Sleep(SimOrWrite(m, "shoulder_pan", Head(ps)), 350000),
                      Tail(ps))

draw_shape(m, shape, size_mm) ==
    LET span == Max(80, Min(400, size_mm * 3))
        m1 == go_home(Emit(ensure(m), Ev("call", "draw_shape", 0)))
    IN  IF shape = "circle" THEN CircleLoop(m1, 0, span)
        ELSE IF shape = "square" THEN SquareRound(SquareRound(m1, span), span)
        ELSE TriangleLoop(m1, <<2048 - span, 2048 + span, 2048>>)

\* ------------------------------------------------------------------ morse
\* International Morse code of the letters and digits.
MorseTable ==
    ("a" :> <<".", "-">>) @@
    ("b" :> <<"-", ".", ".", ".">>) @@
    ("c" :> <<"-", ".", "-", ".">>) @@
    ("d" :> <<"-", ".", ".">>) @@
    ("e" :> <<".">>) @@
    ("f" :> <<".", ".", "-", ".">>) @@
    ("g" :> <<"-", "-", ".">>) @@
    ("h" :> <<".", ".", ".", ".">>) @@
    ("i" :> <<".", ".">>) @@
    ("j" :> <<".", "-", "-", "-">>) @@
    ("k" :> <<"-", ".", "-">>) @@
    ("l" :> <<".", "-", ".", ".">>) @@
    ("m" :> <<"-", "-">>) @@
    ("n" :> <<"-", ".">>) @@
    ("o" :> <<"-", "-", "-">>) @@
    ("p" :> <<".", "-", "-", ".">>) @@
    ("q" :> <<"-", "-", ".", "-">>) @@
    ("r" :> <<".", "-", ".">>) @@
    ("s" :> <<".", ".", ".">>) @@
    ("t" :> <<"-">>) @@
    ("u" :> <<".", ".", "-">>) @@
    ("v" :> <<".", ".", ".", "-">>) @@
    ("w" :> <<".", "-", "-">>) @@
    ("x" :> <<"-", ".", ".", "-">>) @@
    ("y" :> <<"-", ".", "-", "-">>) @@
    ("z" :> <<"-", "-", ".", ".">>) @@
    ("0" :> <<"-", "-", "-", "-", "-">>) @@
    ("1" :> <<".", "-", "-", "-", "-">>) @@
    ("2" :> <<".", ".", "-", "-", "-">>) @@
    ("3" :> <<".", ".", ".", "-", "-">>) @@
    ("4" :> <<".", ".", ".", ".", "-">>) @@
    ("5" :> <<".", ".", ".", ".", ".">>) @@
    ("6" :> <<"-", ".", ".", ".", ".">>) @@
    ("7" :> <<"-", "-", ".", ".", ".">>) @@
    ("8" :> <<"-", "-", "-", ".", ".">>) @@
    ("9" :> <<"-", "-", "-", "-", ".">>)

\* to_morse: one token per character of the text, the character's dots and
\* dashes, or <<" ">> for a space; characters without a code are left out.
RECURSIVE to_morse(_)
to_morse(text) ==
    IF text = <<>> THEN <<>>
    ELSE LET ch == Head(text)
         IN  IF ch = " " THEN << <<" ">> >> \o to_morse(Tail(text))
             ELSE IF ch \in DOMAIN MorseTable
             THEN <<MorseTable[ch]>> \o to_morse(Tail(text))
             ELSE to_morse(Tail(text))

\* One tap: down, descend 0.6 unit, dwell max(20 ms, 0.4 dwell), up, pause
\* one unit (intra-symbol gap).  unit_ms milliseconds = unit_ms * 1000 us.
TapSymbol(m, ch, down, up, unit_ms) ==
    LET dot == unit_ms * 1000
        dwell == IF ch = "." THEN dot ELSE 3 * dot
        m1 == Sleep(SimVerboseOrWrite(m, "wrist_flex", down), (dot * 6) \div 10)
        m2 == Sleep(m1, Max(20000, (dwell * 4) \div 10))
    IN  Sleep(SimVerboseOrWrite(m2, "wrist_flex", up), dot)

RECURSIVE TapToken(_, _, _, _, _)
TapToken(m, token, down, up, unit_ms) ==
    IF token = <<>> THEN Sleep(m, 3 * unit_ms * 1000)
    ELSE TapToken(TapSymbol(m, Head(token), down, up, unit_ms), Tail(token),
                  down, up, unit_ms)

RECURSIVE TapSequence(_, _, _, _, _)
TapSequence(m, sequence, down, up, unit_ms) ==
    IF sequence = <<>> \/ m.raised THEN m
    ELSE LET token == Head(sequence)
             m1 == IF token = <<" ">> THEN Sleep(m, 7 * unit_ms * 1000)
                   ELSE TapToken(m, token, down, up, unit_ms)
         IN  TapSequence(m1, Tail(sequence), down, up, unit_ms)

\* The safe-lift pose is staged through guarded writes, or only logged when
\* simulating verbosely.
RECURSIVE StageSafeLift(_, _)
StageSafeLift(m, pose) ==
    IF pose = <<>> THEN m
    ELSE StageSafeLift(IF m.simulation /\ verbose
                       THEN SimLog(m, Head(pose)[1], Head(pose)[2])
                       ELSE BusWriteGuarded(m, Head(pose)[1], Head(pose)[2]),
                       Tail(pose))

tap_morse(m, text, unit_ms) ==
    LET tap_cfg == calib.tap
        down == IF Has(tap_cfg, "wrist_flex_down") THEN tap_cfg.wrist_flex_down
                ELSE 2048 + 140
        up == IF Has(tap_cfg, "wrist_flex_up") THEN tap_cfg.wrist_flex_up
              ELSE 2048
        safe_lift == IF Has(tap_cfg, "safe_lift_pose")
                     THEN tap_cfg.safe_lift_pose ELSE <<>>
        m0 == Emit(ensure(m), Ev("call", "tap_morse", 0))
        m1 == IF safe_lift # <<>> THEN Sleep(StageSafeLift(m0, safe_lift), 800000)
              ELSE go_home(m0)
        m2 == TapSequence(m1, to_morse(text), down, up, unit_ms)
    IN  IF safe_lift # <<>> THEN Sleep(StageSafeLift(m2, safe_lift), 600000)
        ELSE m2

\* -------------------------------------------------------------- AgentRobot
\* int(position), clamped only when the limits hold the joint's name, then
\* written to the bus, or logged when there is no bus.
move_joint(m, name, position) ==
    LET p == IF name \in DOMAIN limits
             THEN Max(limits[name][1], Min(limits[name][2], position))
             ELSE position
    IN  IF m.bus THEN Emit(m, Ev("write", name, p))
        ELSE SimLog(m, name, p)

\* values: pairs <<joint, value>>; int(p) raises on a value that is no number.
RECURSIVE move_joints(_, _)
move_joints(m, values) ==
    IF values = <<>> \/ m.raised THEN m
    ELSE LET j == Head(values)[1]
             v == Head(values)[2]
         IN  IF ~IsNum(v) THEN Raise(m)
             ELSE move_joints(move_joint(m, j, v[2]), Tail(values))

RECURSIVE relative_move(_, _)
relative_move(m, deltas) ==
    IF deltas = <<>> \/ m.raised THEN m
    ELSE LET j == Head(deltas)[1]
             d == Head(deltas)[2]
             base == PairGet(calib.home_pose, j, 2048)
         IN  IF ~IsNum(d) THEN Raise(m)
             ELSE relative_move(move_joint(m, j, base + d[2]), Tail(deltas))

open_gripper(m) == move_joint(m, "gripper", 2400)

close_gripper(m) == move_joint(m, "gripper", 1600)

\* ------------------------------------------------------------ execute_plan
\* str.lower() on the tool names the plans of this model use.
Lower(name) ==
    CASE name = "WAVE" -> "wave"
      [] name = "Open_Gripper" -> "open_gripper"
      [] OTHER -> name

\* name = (step.get("call") or step.get("action") or "").lower()
StepName(s) ==
    Lower(IF Has(s, "call") /\ s.call # "" THEN s.call
          ELSE IF Has(s, "action") /\ s.action # "" THEN s.action
          ELSE "")

\* args = step.get("args") or {}
StepArgs(s) == IF Has(s, "args") THEN s.args ELSE <<>>

Arg(args, k, default) == IF Has(args, k) THEN args[k] ELSE default

\* A pose of plain integers as the values argument of move_joints.
TagPose(pose) == [i \in 1..Len(pose) |-> <<pose[i][1], Num(pose[i][2])>>]

\* A playback that pauses for the whole duration of a step.
RECURSIVE PlayMotionUncapped(_, _)
PlayMotionUncapped(m, steps) ==
    IF steps = <<>> \/ m.raised THEN m
    ELSE LET st == Head(steps)
             m1 == move_joints(m, TagPose(st.positions))
             m2 == IF st.duration > 0 THEN Sleep(m1, st.duration) ELSE m1
         IN  PlayMotionUncapped(m2, Tail(steps))

\* Playback of reference steps: the positions, then a pause of
\* min(duration, 5 s) when the duration is positive.
RECURSIVE PlayMotion(_, _)
PlayMotion(m, steps) ==
    IF steps = <<>> \/ m.raised THEN m
    ELSE LET st == Head(steps)
             m1 == move_joints(m, TagPose(st.positions))
             m2 == IF st.duration > 0 THEN Sleep(m1, Min(st.duration, 5000000))
                   ELSE m1
         IN  PlayMotion(m2, Tail(steps))

\* The sub-steps of a trajectory: {wait}, {move_joints}, {relative_move};
\* anything else is passed over.  A wait that float() rejects pauses 0.1 s.
RECURSIVE RunTrajectory(_, _)
RunTrajectory(m, steps) ==
    IF steps = <<>> \/ m.raised THEN m
    ELSE LET st == Head(steps)
             m1 == IF Has(st, "wait")
                   THEN (IF IsNum(st.wait) THEN Sleep(m, Max(0, st.wait[2]))
                         ELSE Sleep(m, 100000))
                   ELSE IF Has(st, "move_joints")
                   THEN move_joints(m, st.move_joints)
                   ELSE IF Has(st, "relative_move")
                   THEN relative_move(m, st.relative_move)
                   ELSE m
         IN  RunTrajectory(m1, Tail(steps))

DanceStep(m, args) ==
    LET refs == load_references(refsFile)
        steps == get_motion("dance", refs)
        duration_s == Arg(args, "duration_s", Num(6))
    IN  IF refs.raised THEN Raise(m)
        ELSE IF steps # <<>> THEN PlayMotion(m, steps)
        ELSE IF ~IsNum(duration_s) THEN Raise(m)
        ELSE dance(m, Arg(args, "style", "small"), duration_s[2])

\* A reference_motion branch that takes a name missing from the catalogue
\* for an error.
ReferenceMotionStepStrict(m, args) ==
    LET refs == load_references(refsFile)
        steps == get_motion(Lower(Arg(args, "name", "")), refs)
        home == IF calib.home_pose # <<>> THEN calib.home_pose
                ELSE refs.home_pose
        m1 == IF home # <<>> THEN Sleep(move_joints(m, TagPose(home)), 600000)
              ELSE m
        m2 == PlayMotion(m1, steps)
        m3 == IF home # <<>> THEN Sleep(move_joints(m2, TagPose(home)), 800000)
              ELSE m2
    IN  IF refs.raised \/ steps = <<>> THEN [m |-> Raise(m), found |-> FALSE]
        ELSE [m |-> m3, found |-> TRUE]

\* [m, found]: a name missing from the catalogue is reported and passed over.
ReferenceMotionStep(m, args) ==
    LET refs == load_references(refsFile)
        steps == get_motion(Lower(Arg(args, "name", "")), refs)
        home == IF calib.home_pose # <<>> THEN calib.home_pose
                ELSE refs.home_pose
        m1 == IF home # <<>> THEN Sleep(move_joints(m, TagPose(home)), 600000)
              ELSE m
        m2 == PlayMotion(m1, steps)
        m3 == IF home # <<>> THEN Sleep(move_joints(m2, TagPose(home)), 800000)
              ELSE m2
    IN  IF refs.raised THEN [m |-> Raise(m), found |-> FALSE]
        ELSE IF steps = <<>> THEN [m |-> m, found |-> FALSE]
        ELSE [m |-> m3, found |-> TRUE]

\* The tool grammar: the names execute_plan has a branch for.
ToolNames ==
    {"speak", "wait", "move_joint", "move_joints", "relative_move",
     "open_gripper", "close_gripper", "wave", "tap_morse", "dance",
     "draw_shape", "trajectory", "reference_motion"}

\* The else branch: the name is reported and the loop goes on.
UnknownCallRaises(m, s) == [m |-> Raise(m), motion |-> FALSE]

UnknownCall(m, s) == [m |-> m, motion |-> FALSE]

\* The branches of the tool names: [m, motion] where motion says the branch
\* set did_motion.  int()/float() of an argument raise on a value that is no
\* number.
KnownCall(m, s) ==
    LET name == StepName(s)
        args == StepArgs(s)
        Out(mm, motion) == [m |-> mm, motion |-> motion]
    IN  CASE name = "speak" ->
               Out(IF Arg(args, "text", <<>>) # <<>>
                   THEN Emit(m, Ev("speak", "", Len(args.text))) ELSE m, FALSE)
          [] name = "wave" ->
               LET r == Arg(args, "repetitions", Num(1))
               IN  Out(IF IsNum(r) THEN wave(m, r[2]) ELSE Raise(m), TRUE)
          [] name = "tap_morse" ->
               LET u == Arg(args, "unit_ms", Num(150))
               IN  Out(IF IsNum(u)
                       THEN tap_morse(m, Arg(args, "text", <<"s", "o", "s">>), u[2])
                       ELSE Raise(m), FALSE)
          [] name = "dance" -> Out(DanceStep(m, args), TRUE)
          [] name = "draw_shape" ->
               LET z == Arg(args, "size_mm", Num(60))
               IN  Out(IF IsNum(z)
                       THEN draw_shape(m, Arg(args, "shape", "circle"), z[2])
                       ELSE Raise(m), TRUE)
          [] name = "wait" ->
               LET d == Arg(args, "seconds", Num(500000))
               IN  Out(IF IsNum(d) THEN Sleep(m, Min(Max(0, d[2]), 10000000))
                       ELSE Raise(m), FALSE)
          [] name = "move_joint" ->
               LET p == Arg(args, "position", Num(2048))
               IN  Out(IF IsNum(p) THEN move_joint(m, Arg(args, "name", ""), p[2])
                       ELSE Raise(m), TRUE)
          [] name = "move_joints" ->
               Out(move_joints(m, Arg(args, "values", <<>>)), TRUE)
          [] name = "relative_move" ->
               Out(relative_move(m, Arg(args, "deltas", <<>>)), TRUE)
          [] name = "open_gripper" -> Out(open_gripper(m), TRUE)
          [] name = "close_gripper" -> Out(close_gripper(m), TRUE)
          [] name = "trajectory" ->
               Out(RunTrajectory(m, Arg(args, "steps", <<>>)), TRUE)
          [] name = "reference_motion" ->
               LET r == ReferenceMotionStep(m, args)
               IN  Out(r.m, r.found)


\* One iteration of the loop of execute_plan.
Dispatch(m, s) ==
    IF StepName(s) \in ToolNames THEN KnownCall(m, s) ELSE UnknownCall(m, s)

\* An execute_plan that returns to home after every plan.
FinalHomeAlways(m) == [go_home(m) EXCEPT !.raised = FALSE]

\* The final return to home: "try: robot.go_home() except Exception: pass".
FinalHome(m) ==
    IF did_motion THEN [go_home(m) EXCEPT !.raised = FALSE] ELSE m

\* The motors after the writes of a trace.
RECURSIVE MotorAfter(_, _)
MotorAfter(mot, ev) ==
    IF ev = <<>> THEN mot
    ELSE MotorAfter(IF Head(ev).k = "write" /\ Head(ev).j \in DOMAIN mot
                    THEN [mot EXCEPT ![Head(ev).j] = Head(ev).p] ELSE mot,
                    Tail(ev))


\* ------------------------------------------------------------------- text
\* A text the planner inspects (an utterance, a backend reply) is a sequence
\* of one-character strings.  The operators below are the str methods and
\* regular expressions the planner applies, on such sequences.
Whitespace == {" ", "\n", "\t"}
Digits == {"0", "1", "2", "3", "4", "5", "6", "7", "8", "9"}
LowerLetters == {"a", "b", "c", "d", "e", "f", "g", "h", "i", "j", "k", "l",
                 "m", "n", "o", "p", "q", "r", "s", "t", "u", "v", "w", "x",
                 "y", "z"}
AlNum == LowerLetters \cup Digits

UpperToLower ==
    ("A" :> "a") @@
    ("B" :> "b") @@
    ("C" :> "c") @@
    ("D" :> "d") @@
    ("E" :> "e") @@
    ("F" :> "f") @@
    ("G" :> "g") @@
    ("H" :> "h") @@
    ("I" :> "i") @@
    ("J" :> "j") @@
    ("K" :> "k") @@
    ("L" :> "l") @@
    ("M" :> "m") @@
    ("N" :> "n") @@
    ("O" :> "o") @@
    ("P" :> "p") @@
    ("Q" :> "q") @@
    ("R" :> "r") @@
    ("S" :> "s") @@
    ("T" :> "t") @@
    ("U" :> "u") @@
    ("V" :> "v") @@
    ("W" :> "w") @@
    ("X" :> "x") @@
    ("Y" :> "y") @@
    ("Z" :> "z")

\* str.lower()
lower(s) == [i \in 1..Len(s) |->
                IF s[i] \in DOMAIN UpperToLower THEN UpperToLower[s[i]]
                ELSE s[i]]

\* s[i:i+len(p)] == p
OccursAt(s, p, i) == i >= 1 /\ i + Len(p) - 1 <= Len(s)
                     /\ SubSeq(s, i, i + Len(p) - 1) = p

\* p in s
Contains(s, p) == \E i \in 1..(Len(s) - Len(p) + 1) : OccursAt(s, p, i)

StartsWith(s, p) == OccursAt(s, p, 1)

EndsWith(s, p) == OccursAt(s, p, Len(s) - Len(p) + 1)

\* s.strip(chars): drop the characters of cs from both ends.
StripSet(s, cs) ==
    LET keep == {i \in 1..Len(s) : s[i] \notin cs}
    IN  IF keep = {} THEN <<>>
        ELSE SubSeq(s, CHOOSE i \in keep : \A k \in keep : i <= k,
                       CHOOSE j \in keep : \A k \in keep : j >= k)

\* s.strip()
strip(s) == StripSet(s, Whitespace)

\* s.replace(old, new): every occurrence, left to right, without overlap.
RECURSIVE Replace(_, _, _)
Replace(s, old, new) ==
    IF Len(s) < Len(old) \/ old = <<>> THEN s
    ELSE IF StartsWith(s, old)
         THEN new \o Replace(SubSeq(s, Len(old) + 1, Len(s)), old, new)
         ELSE <<Head(s)>> \o Replace(Tail(s), old, new)

\* s.split(): the maximal runs of non-blank characters.
RECURSIVE Split(_)
Split(s) ==
    LET t == strip(s)
        stop == {i \in 1..Len(t) : t[i] \in Whitespace}
        cut == IF stop = {} THEN Len(t) + 1
               ELSE CHOOSE i \in stop : \A k \in stop : i <= k
    IN  IF t = <<>> THEN <<>>
        ELSE <<SubSeq(t, 1, cut - 1)>> \o Split(SubSeq(t, cut, Len(t)))

\* The longest run of characters of cs that starts at position i.
RECURSIVE RunFrom(_, _, _)
RunFrom(s, i, cs) ==
    IF i > Len(s) \/ s[i] \notin cs THEN <<>>
    ELSE <<s[i]>> \o RunFrom(s, i + 1, cs)

\* str(n) of an integer.
RECURSIVE IntToStr(_)
IntToStr(n) ==
    LET digit(d) == <<"0", "1", "2", "3", "4", "5", "6", "7", "8", "9">>[d + 1]
    IN  IF n < 0 THEN <<"-">> \o IntToStr(-n)
        ELSE IF n < 10 THEN <<digit(n)>>
        ELSE IntToStr(n \div 10) \o <<digit(n % 10)>>

\* ------------------------------------------------------ planner inputs
\* Utterances handed to plan().
\* "   ": blank: nothing to plan
U_blank ==
    <<" ", " ", " ">>
\* "Stop": a stop word
U_stop ==
    <<"S", "t", "o", "p">>
\* "Wave at me": imperative; the rules answer with a wave
U_wave ==
    <<"W", "a", "v", "e", " ", "a", "t", " ", "m", "e">>
\* "wave + dance": imperative holding an operator sign
U_wave_plus ==
    <<"w", "a", "v", "e", " ", "+", " ", "d", "a", "n", "c", "e">>
\* "draw a circle": imperative the rules have no entry for
U_circle ==
    <<"d", "r", "a", "w", " ", "a", " ", "c", "i", "r", "c", "l", "e">>
\* "open and close the gripper": two actions in one utterance
U_grip ==
    <<"o", "p", "e", "n", " ", "a", "n", "d", " ", "c", "l", "o", "s", "e",
      " ", "t", "h", "e", " ", "g", "r", "i", "p", "p", "e", "r">>
\* "3 times 4": arithmetic in words
U_times ==
    <<"3", " ", "t", "i", "m", "e", "s", " ", "4">>
\* "what is 7 - 2?": arithmetic question with a minus sign
U_minus ==
    <<"w", "h", "a", "t", " ", "i", "s", " ", "7", " ", "-", " ", "2", "?">>
\* "which is better cats or dogs?": preference question
U_better_mid ==
    <<"w", "h", "i", "c", "h", " ", "i", "s", " ", "b", "e", "t", "t", "e",
      "r", " ", "c", "a", "t", "s", " ", "o", "r", " ", "d", "o", "g", "s",
      "?">>
\* "cats or dogs, which is better?": preference question ending in the keyword
U_better_end ==
    <<"c", "a", "t", "s", " ", "o", "r", " ", "d", "o", "g", "s", ",", " ",
      "w", "h", "i", "c", "h", " ", "i", "s", " ", "b", "e", "t", "t", "e",
      "r", "?">>
\* "can you hear me?": yes/no question
U_hear ==
    <<"c", "a", "n", " ", "y", "o", "u", " ", "h", "e", "a", "r", " ", "m",
      "e", "?">>
Utterances ==
    {U_blank,
     U_stop,
     U_wave,
     U_wave_plus,
     U_circle,
     U_grip,
     U_times,
     U_minus,
     U_better_mid,
     U_better_end,
     U_hear}

\* Texts a backend generates in answer to one request.
\* "{\"plan\":[{\"call\":\"draw_shape\",\"args\":{\"shape\":\"circle\",\"size_mm\":60}}]}": one valid step
R_draw ==
    <<"{", "\"", "p", "l", "a", "n", "\"", ":", "[", "{", "\"", "c", "a",
      "l", "l", "\"", ":", "\"", "d", "r", "a", "w", "_", "s", "h", "a",
      "p", "e", "\"", ",", "\"", "a", "r", "g", "s", "\"", ":", "{", "\"",
      "s", "h", "a", "p", "e", "\"", ":", "\"", "c", "i", "r", "c", "l",
      "e", "\"", ",", "\"", "s", "i", "z", "e", "_", "m", "m", "\"", ":",
      "6", "0", "}", "}", "]", "}">>
\* "{\"plan\":[{\"call\":\"reference_motion\",\"args\":{\"name\":\"yes\"}}]}": the trivial yes motion
R_yes ==
    <<"{", "\"", "p", "l", "a", "n", "\"", ":", "[", "{", "\"", "c", "a",
      "l", "l", "\"", ":", "\"", "r", "e", "f", "e", "r", "e", "n", "c",
      "e", "_", "m", "o", "t", "i", "o", "n", "\"", ",", "\"", "a", "r",
      "g", "s", "\"", ":", "{", "\"", "n", "a", "m", "e", "\"", ":", "\"",
      "y", "e", "s", "\"", "}", "}", "]", "}">>
\* "{\"plan\":[{\"call\":\"open_gripper\",\"args\":{}},{\"call\":\"close_gripper\",\"args\":{}}]}": two valid steps
R_two ==
    <<"{", "\"", "p", "l", "a", "n", "\"", ":", "[", "{", "\"", "c", "a",
      "l", "l", "\"", ":", "\"", "o", "p", "e", "n", "_", "g", "r", "i",
      "p", "p", "e", "r", "\"", ",", "\"", "a", "r", "g", "s", "\"", ":",
      "{", "}", "}", ",", "{", "\"", "c", "a", "l", "l", "\"", ":", "\"",
      "c", "l", "o", "s", "e", "_", "g", "r", "i", "p", "p", "e", "r",
      "\"", ",", "\"", "a", "r", "g", "s", "\"", ":", "{", "}", "}", "]",
      "}">>
\* "Plan: {\"plan\":[{\"action\":\"wave\"},\"junk\",{\"call\":5},{\"call\":\"reference_motion\",\"args\":{\"motion\":\"no\"}}]} ok": prose around an object whose list mixes usable and unusable entries
R_mixed ==
    <<"P", "l", "a", "n", ":", " ", "{", "\"", "p", "l", "a", "n", "\"",
      ":", "[", "{", "\"", "a", "c", "t", "i", "o", "n", "\"", ":", "\"",
      "w", "a", "v", "e", "\"", "}", ",", "\"", "j", "u", "n", "k", "\"",
      ",", "{", "\"", "c", "a", "l", "l", "\"", ":", "5", "}", ",", "{",
      "\"", "c", "a", "l", "l", "\"", ":", "\"", "r", "e", "f", "e", "r",
      "e", "n", "c", "e", "_", "m", "o", "t", "i", "o", "n", "\"", ",",
      "\"", "a", "r", "g", "s", "\"", ":", "{", "\"", "m", "o", "t", "i",
      "o", "n", "\"", ":", "\"", "n", "o", "\"", "}", "}", "]", "}", " ",
      "o", "k">>
\* "{\"steps\":[]}": an object without a plan key
R_noplan ==
    <<"{", "\"", "s", "t", "e", "p", "s", "\"", ":", "[", "]", "}">>
\* "I will wave": prose naming a tool
R_prose_wave ==
    <<"I", " ", "w", "i", "l", "l", " ", "w", "a", "v", "e">>
\* "not sure": prose naming nothing
R_prose ==
    <<"n", "o", "t", " ", "s", "u", "r", "e">>
\* "": no text at all
R_empty ==
    <<>>
Replies ==
    {R_draw,
     R_yes,
     R_two,
     R_mixed,
     R_noplan,
     R_prose_wave,
     R_prose,
     R_empty}

\* int(hashlib.sha256(text.encode()).hexdigest(), 16) % 2 == 0, on the
\* utterances above.
Sha256Even(text) ==
    CASE text = strip(U_stop) -> FALSE
      [] text = strip(U_wave) -> FALSE
      [] text = strip(U_wave_plus) -> FALSE
      [] text = strip(U_circle) -> FALSE
      [] text = strip(U_grip) -> TRUE
      [] text = strip(U_times) -> FALSE
      [] text = strip(U_minus) -> TRUE
      [] text = strip(U_better_mid) -> FALSE
      [] text = strip(U_better_end) -> FALSE
      [] text = strip(U_hear) -> TRUE

\* eval(expr) on the expressions the utterances reduce to: whether it
\* raises, whether the value is integral, int(value), and the value in
\* the format ".3g".
PyEval(expr) ==
    CASE expr = <<"+">> ->
         [raises |-> TRUE, integral |-> FALSE, n |-> 0, g3 |-> <<>>]
      [] expr = <<"3", " ", "*", " ", "4">> ->
         [raises |-> FALSE, integral |-> TRUE, n |-> 12, g3 |-> <<"1", "2">>]
      [] expr = <<"7", " ", "-", " ", "2">> ->
         [raises |-> FALSE, integral |-> TRUE, n |-> 5, g3 |-> <<"5">>]

\* json.loads on the fragments of the replies above that parse: the value
\* of the object's "plan" key, each entry of the list with its "call",
\* "action" and "args".  Every other fragment makes json.loads raise.
JsonError == [raises |-> TRUE, isList |-> FALSE, items |-> <<>>]
JsonLoads(s) ==
    CASE s = SubSeq(R_mixed, 7, 103) ->
         [raises |-> FALSE, isList |-> TRUE,
          items |-> << [isDict |-> TRUE, call |-> [kind |-> "none", s |-> "", truthy |-> FALSE],
              action |-> [kind |-> "str", s |-> "wave", truthy |-> TRUE],
              argsIsDict |-> FALSE, args |-> <<>>],
            [isDict |-> FALSE, call |-> [kind |-> "none", s |-> "", truthy |-> FALSE],
              action |-> [kind |-> "none", s |-> "", truthy |-> FALSE],
              argsIsDict |-> FALSE, args |-> <<>>],
            [isDict |-> TRUE, call |-> [kind |-> "other", s |-> "", truthy |-> TRUE],
              action |-> [kind |-> "none", s |-> "", truthy |-> FALSE],
              argsIsDict |-> FALSE, args |-> <<>>],
            [isDict |-> TRUE, call |-> [kind |-> "str", s |-> "reference_motion", truthy |-> TRUE],
              action |-> [kind |-> "none", s |-> "", truthy |-> FALSE],
              argsIsDict |-> TRUE, args |-> [motion |-> "no"]] >>]
      [] s = R_draw ->
         [raises |-> FALSE, isList |-> TRUE,
          items |-> << [isDict |-> TRUE, call |-> [kind |-> "str", s |-> "draw_shape", truthy |-> TRUE],
              action |-> [kind |-> "none", s |-> "", truthy |-> FALSE],
              argsIsDict |-> TRUE, args |-> [shape |-> "circle", size_mm |-> Num(60)]] >>]
      [] s = R_two ->
         [raises |-> FALSE, isList |-> TRUE,
          items |-> << [isDict |-> TRUE, call |-> [kind |-> "str", s |-> "open_gripper", truthy |-> TRUE],
              action |-> [kind |-> "none", s |-> "", truthy |-> FALSE],
              argsIsDict |-> TRUE, args |-> <<>>],
            [isDict |-> TRUE, call |-> [kind |-> "str", s |-> "close_gripper", truthy |-> TRUE],
              action |-> [kind |-> "none", s |-> "", truthy |-> FALSE],
              argsIsDict |-> TRUE, args |-> <<>>] >>]
      [] s = R_yes ->
         [raises |-> FALSE, isList |-> TRUE,
          items |-> << [isDict |-> TRUE, call |-> [kind |-> "str", s |-> "reference_motion", truthy |-> TRUE],
              action |-> [kind |-> "none", s |-> "", truthy |-> FALSE],
              argsIsDict |-> TRUE, args |-> [name |-> "yes"]] >>]
      [] s = R_noplan ->
         [raises |-> FALSE, isList |-> FALSE,
          items |-> <<>>]
      [] OTHER -> JsonError


\* --------------------------------------------------- SimpleToolsPlanner
\* The arithmetic reading of an utterance: "what is" dropped, the operator
\* words replaced in the order of the mapping, everything but digits,
\* operators, parentheses, dots and blanks removed, blanks and question
\* marks stripped from both ends.
ArithExpr(low) ==
    LET e1 == Replace(Replace(low, <<"w", "h", "a", "t", " ", "i", "s">>, <<>>), <<"w", "h", "a", "t", "'", "s">>, <<>>)
        e2 == Replace(Replace(Replace(e1, <<"p", "l", "u", "s">>, <<"+">>), <<"m", "i", "n", "u", "s">>, <<"-">>),
                      <<"t", "i", "m", "e", "s">>, <<"*">>)
        e3 == Replace(Replace(e2, <<"m", "u", "l", "t", "i", "p", "l", "i", "e", "d", " ", "b", "y">>, <<"*">>), <<"x">>, <<"*">>)
        e4 == Replace(Replace(e3, <<"d", "i", "v", "i", "d", "e", "d", " ", "b", "y">>, <<"/">>), <<"o", "v", "e", "r">>, <<"/">>)
        kept == Digits \cup {"+", "-", "*", "/", "(", ")", ".", " "}
    IN  StripSet(SelectSeq(e4, LAMBDA c : c \in kept), {" ", "?"})

\* The expression evaluated: the answer text when the expression is not
\* empty, holds an operator, and evaluates to a number.
ArithAnswer(low) ==
    LET answer(expr, v) ==
            IF /\ expr # <<>>
               /\ \E i \in 1..Len(expr) : expr[i] \in {"+", "-", "*", "/"}
               /\ ~v.raises
            THEN [found |-> TRUE,
                  text |-> IF v.integral THEN IntToStr(v.n) ELSE v.g3]
            ELSE [found |-> FALSE, text |-> <<>>]
        eval(expr) == answer(expr, PyEval(expr))
    IN  eval(ArithExpr(low))

\* \b at position i of s: exactly one of s[i-1], s[i] is a word character.
WordBoundary(s, i) ==
    LET w(k) == k >= 1 /\ k <= Len(s) /\ s[k] \in AlNum \cup {"_"}
    IN  w(i - 1) # w(i)

\* \b([a-z0-9]{2,})\b\s+or\s+\b([a-z0-9]{2,})\b matched at position i.
PairAt(s, i) ==
    LET second(a, p1, w1, p2, w2, p4, b) ==
            [ok |-> /\ WordBoundary(s, i) /\ Len(a) >= 2 /\ WordBoundary(s, p1)
                    /\ Len(w1) >= 1 /\ OccursAt(s, <<"o", "r">>, p2) /\ Len(w2) >= 1
                    /\ WordBoundary(s, p4) /\ Len(b) >= 2
                    /\ WordBoundary(s, p4 + Len(b)),
             a |-> a, b |-> b, end |-> p4 + Len(b)]
        gap2(a, p1, w1, p2, w2) ==
            second(a, p1, w1, p2, w2, p2 + 2 + Len(w2),
                   RunFrom(s, p2 + 2 + Len(w2), AlNum))
        gap1(a, p1, w1) ==
            gap2(a, p1, w1, p1 + Len(w1),
                 RunFrom(s, p1 + Len(w1) + 2, Whitespace))
        first(a) == gap1(a, i + Len(a), RunFrom(s, i + Len(a), Whitespace))
    IN  first(RunFrom(s, i, AlNum))

\* re.findall of that pattern: the matches from left to right, each search
\* starting where the previous match ended.
RECURSIVE PairMatches(_, _)
PairMatches(s, from) ==
    LET next(m) == IF m.ok THEN <<m>> \o PairMatches(s, m.end)
                   ELSE PairMatches(s, from + 1)
    IN  IF from > Len(s) THEN <<>> ELSE next(PairAt(s, from))

\* The option chosen between the last "A or B" pair of the utterance, by
\* the parity of the utterance's digest; none when there is no pair.
PreferenceChoice(text) ==
    LET pick(pair_matches) ==
            IF pair_matches = <<>> THEN [found |-> FALSE, text |-> <<>>]
            ELSE [found |-> TRUE,
                  text |-> IF Sha256Even(text)
                           THEN pair_matches[Len(pair_matches)].a
                           ELSE pair_matches[Len(pair_matches)].b]
    IN  pick(PairMatches(lower(text), 1))

\* The wind-up, strike and retract of the rules' karate chop.
KarateTrajectory(pan, elbow, wrist, w1, w2) ==
    Step("trajectory",
         [steps |-> << [relative_move |-> << <<"shoulder_pan", Num(-pan)>>,
                                             <<"elbow_flex", Num(elbow)>> >>],
                       [wait |-> Num(w1)],
                       [relative_move |-> << <<"wrist_flex", Num(wrist)>> >>],
                       [wait |-> Num(w2)],
                       [relative_move |-> << <<"wrist_flex", Num(-wrist)>>,
                                             <<"elbow_flex", Num(-elbow)>>,
                                             <<"shoulder_pan", Num(pan)>> >>] >>])

MoveTrajectory ==
    Step("trajectory",
         [steps |-> << [relative_move |-> << <<"shoulder_pan", Num(-300)>>,
                                             <<"elbow_flex", Num(250)>> >>],
                       [wait |-> Num(400000)],
                       [relative_move |-> << <<"shoulder_pan", Num(600)>>,
                                             <<"wrist_flex", Num(-200)>> >>],
                       [wait |-> Num(400000)],
                       [relative_move |-> << <<"shoulder_pan", Num(-300)>>,
                                             <<"elbow_flex", Num(-250)>>,
                                             <<"wrist_flex", Num(200)>> >>] >>])

FlourishTrajectory ==
    Step("trajectory",
         [steps |-> << [relative_move |-> << <<"shoulder_pan", Num(100)>> >>],
                       [wait |-> Num(300000)],
                       [relative_move |-> << <<"shoulder_pan", Num(-100)>> >>] >>])

\* The word after the first "tap" of t.split(), "sos" when there is none.
WordAfterTap(t) ==
    LET after(parts) ==
            LET at == {i \in 1..Len(parts) : parts[i] = <<"t", "a", "p">>}
                first == CHOOSE i \in at : \A k \in at : i <= k
            IN  IF at # {} /\ first + 1 <= Len(parts) THEN parts[first + 1]
                ELSE <<"s", "o", "s">>
    IN  after(Split(t))

\* A test for stop words that takes every text holding one.
StopTextAnywhere(t) ==
    t = <<>> \/ \E w \in {<<"s", "t", "o", "p">>, <<"e", "x", "i", "t">>, <<"q", "u", "i", "t">>} : Contains(t, w)

\* _rule_plan's first test, "not t or t in {stop, exit, quit}", on the
\* lower-cased, stripped text.
StopText(t) == t = <<>> \/ t \in {<<"s", "t", "o", "p">>, <<"e", "x", "i", "t">>, <<"q", "u", "i", "t">>}

\* The gripper sequence without the pause between opening and closing.
GripperSequenceNoWait(open, close) ==
    (IF open THEN <<Step("open_gripper", <<>>)>> ELSE <<>>)
    \o (IF close THEN <<Step("close_gripper", <<>>)>> ELSE <<>>)

\* _rule_plan's gripper sequence: open when asked to, close when asked to,
\* with a pause of 0.4 s between the two.
GripperSequence(open, close) ==
    (IF open THEN <<Step("open_gripper", <<>>)>> ELSE <<>>)
    \o (IF open /\ close
        THEN <<Step("wait", [seconds |-> Num(400000)])>>
        ELSE <<>>)
    \o (IF close THEN <<Step("close_gripper", <<>>)>> ELSE <<>>)

\* _rule_plan: the deterministic plan of an utterance.
rule_plan(text) ==
    LET yn_prefixes == {<<"i", "s", " ">>, <<"a", "r", "e", " ">>, <<"d", "o", " ">>, <<"d", "o", "e", "s", " ">>, <<"c", "a", "n", " ">>,
                        <<"w", "i", "l", "l", " ">>, <<"w", "o", "u", "l", "d", " ">>, <<"s", "h", "o", "u", "l", "d", " ">>}
        rules(t, answer) ==
            LET negative ==
                    \/ Contains(t, <<"s", "k", "y">>) /\ Contains(t, <<"g", "r", "e", "e", "n">>)
                    \/ Contains(t, <<"e", "l", "e", "p", "h", "a", "n", "t">>) /\ Contains(t, <<"m", "o", "o", "n">>)
                    \/ Contains(t, <<"a", "r", "e", " ", "y", "o", "u", " ", "a", " ", "h", "u", "m", "a", "n">>)
                open == Contains(t, <<"o", "p", "e", "n">>)
                close == Contains(t, <<"c", "l", "o", "s", "e">>)
            IN  IF StopText(t) THEN <<>>
                ELSE IF EndsWith(t, <<"?">>)
                THEN IF \E p \in yn_prefixes : StartsWith(t, p)
                     THEN <<Step("reference_motion",
                                 [name |-> IF negative THEN "no" ELSE "yes"])>>
                     ELSE IF answer.found /\ answer.text # <<>>
                     THEN <<Step("tap_morse", [text |-> answer.text])>>
                     ELSE IF Contains(t, <<"p", "a", "p", "e", "r">>)
                     THEN <<Step("tap_morse", [text |-> <<"c", "e", "l", "l", "u", "l", "o", "s", "e">>])>>
                     ELSE <<Step("reference_motion", [name |-> "dunno"])>>
                ELSE IF Contains(t, <<"b", "i", "g", " ", "w", "a", "v", "e">>)
                THEN <<Step("reference_motion", [name |-> "big_wave"])>>
                ELSE IF Contains(t, <<"w", "a", "v", "e">>)
                THEN <<Step("wave", [repetitions |-> Num(1)])>>
                ELSE IF Contains(t, <<"g", "r", "i", "p", "p", "e", "r">>) /\ (open \/ close)
                THEN GripperSequence(open, close)
                ELSE IF Contains(t, <<"k", "a", "r", "a", "t", "e">>) \/ Contains(t, <<"c", "h", "o", "p">>)
                THEN <<KarateTrajectory(160, 300, 350, 200000, 120000)>>
                ELSE IF StartsWith(t, <<"m", "o", "v", "e">>) \/ StartsWith(t, <<"d", "o", " ", "a", " ", "m", "o", "v", "e">>)
                THEN <<MoveTrajectory>>
                ELSE IF Contains(t, <<"t", "a", "p">>) /\ Contains(t, <<"m", "o", "r", "s", "e">>)
                THEN <<Step("tap_morse", [text |-> WordAfterTap(t)])>>
                ELSE IF Contains(t, <<"d", "a", "n", "c", "e">>) \/ Contains(t, <<"f", "u", "n", "n", "y">>)
                THEN <<Step("reference_motion", [name |-> "dance"])>>
                ELSE <<FlourishTrajectory>>
        trimmed(t) == rules(t, ArithAnswer(t))
    IN  trimmed(strip(lower(text)))


\* The absent result of a heuristic (None), and a present one.
NoPlan == [found |-> FALSE, plan |-> <<>>]
SomePlan(p) == [found |-> TRUE, plan |-> p]

\* re.search(r'tap(?: morse)? ([a-z0-9]+)', s): the word captured by the
\* leftmost match, "sos" when nothing matches.
TapWordAt(s, i) ==
    LET long == RunFrom(s, i + 10, AlNum)
        short == RunFrom(s, i + 4, AlNum)
    IN  IF OccursAt(s, <<"t", "a", "p", " ", "m", "o", "r", "s", "e", " ">>, i) /\ long # <<>> THEN long
        ELSE IF OccursAt(s, <<"t", "a", "p", " ">>, i) /\ short # <<>> THEN short
        ELSE <<>>

TapWord(s) ==
    LET at == {i \in 1..Len(s) : TapWordAt(s, i) # <<>>}
    IN  IF at = {} THEN <<"s", "o", "s">>
        ELSE TapWordAt(s, CHOOSE i \in at : \A k \in at : i <= k)

\* _repair_to_json: a plan read out of the tool words of the raw text, or
\* out of the utterance when it is a preference question or arithmetic.
repair_to_json(user_text, raw) ==
    LET repair(low_u, low, choice, answer) ==
            LET preference ==
                    /\ EndsWith(low_u, <<"?">>) /\ Contains(low_u, <<" ", "o", "r", " ">>)
                    /\ \E w \in {<<"b", "e", "t", "t", "e", "r">>, <<"p", "r", "e", "f", "e", "r">>, <<"f", "a", "v", "o", "r", "i", "t", "e">>} :
                          Contains(low_u, w)
                open == IF Contains(low, <<"o", "p", "e", "n", " ", "t", "h", "e", " ", "g", "r", "i", "p", "p", "e", "r">>)
                           \/ Contains(low, <<"o", "p", "e", "n", " ", "g", "r", "i", "p", "p", "e", "r">>)
                        THEN <<Step("open_gripper", <<>>)>> ELSE <<>>
                close == IF Contains(low, <<"c", "l", "o", "s", "e", " ", "t", "h", "e", " ", "g", "r", "i", "p", "p", "e", "r">>)
                            \/ Contains(low, <<"c", "l", "o", "s", "e", " ", "g", "r", "i", "p", "p", "e", "r">>)
                         THEN (IF open # <<>>
                               THEN <<Step("wait", [seconds |-> Num(400000)])>>
                               ELSE <<>>) \o <<Step("close_gripper", <<>>)>>
                         ELSE <<>>
                waves == IF Contains(low, <<"b", "i", "g", " ", "w", "a", "v", "e">>)
                         THEN <<Step("reference_motion", [name |-> "big_wave"])>>
                         ELSE IF Contains(low, <<"w", "a", "v", "e">>)
                         THEN <<Step("wave", [repetitions |-> Num(1)])>>
                         ELSE <<>>
                karate == IF Contains(low, <<"k", "a", "r", "a", "t", "e">>) \/ Contains(low, <<"c", "h", "o", "p">>)
                          THEN <<KarateTrajectory(160, 300, 350, 200000, 120000)>>
                          ELSE <<>>
                dances == IF Contains(low, <<"d", "a", "n", "c", "e">>) \/ Contains(low, <<"f", "u", "n", "n", "y">>)
                          THEN <<Step("reference_motion", [name |-> "dance"])>>
                          ELSE <<>>
                draws == IF Contains(low, <<"d", "r", "a", "w">>)
                            /\ (Contains(low, <<"c", "i", "r", "c", "l", "e">>) \/ Contains(low, <<"s", "q", "u", "a", "r", "e">>))
                         THEN <<Step("draw_shape",
                                     [shape |-> IF Contains(low, <<"c", "i", "r", "c", "l", "e">>)
                                                THEN "circle" ELSE "square",
                                      size_mm |-> Num(60)])>>
                         ELSE <<>>
                morse == IF Contains(low, <<"m", "o", "r", "s", "e">>) /\ Contains(low, <<"t", "a", "p">>)
                         THEN <<Step("tap_morse", [text |-> TapWord(low)])>>
                         ELSE <<>>
                result(plan) ==
                    IF raw = <<>> THEN NoPlan
                    ELSE IF preference /\ choice.found
                    THEN SomePlan(<<Step("tap_morse", [text |-> choice.text])>>)
                    ELSE IF /\ plan = <<>>
                            /\ \E i \in 1..Len(low_u) :
                                  low_u[i] \in {"+", "-", "*", "/"}
                            /\ ~Contains(low, <<"p", "l", "a", "n">>)
                            /\ answer.found
                    THEN SomePlan(<<Step("tap_morse", [text |-> answer.text])>>)
                    ELSE IF plan # <<>> THEN SomePlan(plan)
                    ELSE NoPlan
            IN  result(open \o close \o waves \o karate \o dances \o draws
                       \o morse)
        lowered(low_u) ==
            repair(low_u, lower(raw), PreferenceChoice(user_text),
                   ArithAnswer(low_u))
    IN  lowered(lower(user_text))

\* The tools _salvage_plan looks for, in its order, each with its keywords.
SalvageKeywords ==
    << <<"open_gripper", {<<"o", "p", "e", "n", " ", "g", "r", "i", "p", "p", "e", "r">>}>>,
       <<"close_gripper", {<<"c", "l", "o", "s", "e", " ", "g", "r", "i", "p", "p", "e", "r">>}>>,
       <<"wave", {<<"w", "a", "v", "e">>}>>,
       <<"trajectory:karate", {<<"k", "a", "r", "a", "t", "e">>, <<"c", "h", "o", "p">>}>>,
       <<"reference_motion:dance", {<<"d", "a", "n", "c", "e">>, <<"f", "u", "n", "n", "y">>}>>,
       <<"reference_motion:yes", {<<" ", "y", "e", "s", " ">>}>>,
       <<"reference_motion:no", {<<" ", "n", "o", " ">>}>>,
       <<"reference_motion:dunno", {<<"d", "u", "n", "n", "o">>, <<"s", "h", "r", "u", "g">>}>>,
       <<"draw_shape", {<<"d", "r", "a", "w">>, <<"c", "i", "r", "c", "l", "e">>, <<"s", "q", "u", "a", "r", "e">>}>>,
       <<"tap_morse", {<<"m", "o", "r", "s", "e">>, <<"t", "a", "p">>}>> >>

\* A _salvage_plan that takes the motion for the tool: the name after the
\* colon becomes the call.
SalvageStepByMotion(item, tx) ==
    CASE item = "open_gripper" -> Step("open_gripper", <<>>)
      [] item = "close_gripper" -> Step("close_gripper", <<>>)
      [] item = "wave" -> Step("wave", [repetitions |-> Num(1)])
      [] item = "trajectory:karate" -> Step("karate", <<>>)
      [] item = "reference_motion:dance" -> Step("dance", <<>>)
      [] item = "reference_motion:yes" -> Step("yes", <<>>)
      [] item = "reference_motion:no" -> Step("no", <<>>)
      [] item = "reference_motion:dunno" -> Step("dunno", <<>>)
      [] item = "draw_shape" -> Step("draw_shape", [size_mm |-> Num(60)])
      [] item = "tap_morse" -> Step("tap_morse", <<>>)

\* The step _salvage_plan appends for one tool it found.
SalvageStep(item, tx) ==
    CASE item = "open_gripper" -> Step("open_gripper", <<>>)
      [] item = "close_gripper" -> Step("close_gripper", <<>>)
      [] item = "wave" -> Step("wave", [repetitions |-> Num(1)])
      [] item = "trajectory:karate" ->
            KarateTrajectory(140, 260, 320, 180000, 100000)
      [] item = "reference_motion:dance" ->
            Step("reference_motion", [name |-> "dance"])
      [] item = "reference_motion:yes" ->
            Step("reference_motion", [name |-> "yes"])
      [] item = "reference_motion:no" ->
            Step("reference_motion", [name |-> "no"])
      [] item = "reference_motion:dunno" ->
            Step("reference_motion", [name |-> "dunno"])
      [] item = "draw_shape" ->
            Step("draw_shape",
                 [shape |-> IF Contains(tx, <<"c", "i", "r", "c", "l", "e">>) THEN "circle"
                            ELSE IF Contains(tx, <<"s", "q", "u", "a", "r", "e">>) THEN "square"
                            ELSE "circle",
                  size_mm |-> Num(60)])
      [] item = "tap_morse" -> Step("tap_morse", [text |-> TapWord(tx)])

\* _salvage_plan: one step per tool whose keyword the raw text holds, at
\* most six; without any, a preference choice read out of the utterance.
salvage_plan(user_text, raw) ==
    LET asksPreference ==
            \E w \in {<<"b", "e", "t", "t", "e", "r">>, <<"f", "a", "v", "o", "r", "i", "t", "e">>, <<"p", "r", "e", "f", "e", "r">>} :
                Contains(lower(user_text), w)
        salvage(tx, order, choice) ==
            IF raw = <<>> THEN NoPlan
            ELSE IF order = <<>> /\ asksPreference
            THEN (IF choice.found
                  THEN SomePlan(<<Step("tap_morse", [text |-> choice.text])>>)
                  ELSE SomePlan(<<Step("reference_motion", [name |-> "dunno"])>>))
            ELSE IF order = <<>> THEN NoPlan
            ELSE SomePlan([i \in 1..Min(6, Len(order)) |->
                              SalvageStep(order[i], tx)])
        named(hit) == [i \in 1..Len(hit) |-> hit[i][1]]
        found(tx) ==
            salvage(tx,
                    named(SelectSeq(SalvageKeywords,
                                    LAMBDA e : \E k \in e[2] : Contains(tx, k))),
                    PreferenceChoice(user_text))
    IN  found(lower(raw))


\* "for i, ch in enumerate(s): ..." as a fold of the loop body over
\* s[lo..hi].  The state carries done, set when the loop returns; the range
\* is halved so that long texts do not nest deeply.
RECURSIVE ForEach(_, _, _, _, _)
ForEach(body(_, _, _), state, s, lo, hi) ==
    IF lo > hi \/ state.done THEN state
    ELSE IF lo = hi THEN body(state, s[lo], lo)
    ELSE LET left == ForEach(body, state, s, lo, (lo + hi) \div 2)
         IN  IF left.done THEN left
             ELSE ForEach(body, left, s, (lo + hi) \div 2 + 1, hi)

\* The loop body of _balanced_slice; start is 0 while no brace is open.
BalancedBody(st, ch, i) ==
    IF ch = "{"
    THEN [st EXCEPT !.depth = @ + 1,
                    !.start = IF st.depth = 0 THEN i ELSE @]
    ELSE IF ch = "}" /\ st.depth > 0
    THEN [st EXCEPT !.depth = @ - 1,
                    !.done = st.depth = 1 /\ st.start # 0,
                    !.last = i]
    ELSE st

\* _balanced_slice: the first top-level {...} of s, <<>> when there is none.
balanced_slice(s) ==
    LET slice(st) == IF st.done THEN SubSeq(s, st.start, st.last) ELSE <<>>
    IN  slice(ForEach(BalancedBody,
                      [depth |-> 0, start |-> 0, last |-> 0, done |-> FALSE],
                      s, 1, Len(s)))

\* The first top-level {...} of s if json.loads accepts it, else <<>>.
FirstJsonObject(s) ==
    LET loads(cand) == IF cand # <<>> /\ ~JsonLoads(cand).raises THEN cand
                       ELSE <<>>
    IN  loads(balanced_slice(s))

\* frag.count(c)
Count(s, c) == Cardinality({i \in 1..Len(s) : s[i] = c})

\* The loop body of _early_balance on text s: the brace and bracket
\* counters, then the test of the fragment from the opening brace to here.
\* While several steps are expected, a fragment whose plan list has fewer
\* than two entries is passed over.
EarlyBody(s, expect_multi, st, ch, i) ==
    LET start == IF ch = "{" /\ st.depth_curly = 0 THEN i ELSE st.start
        curly == IF ch = "{" THEN st.depth_curly + 1
                 ELSE IF ch = "}" /\ st.depth_curly > 0
                 THEN st.depth_curly - 1
                 ELSE st.depth_curly
        square == IF ch = "[" /\ st.start # 0 THEN st.depth_square + 1
                  ELSE IF ch = "]" /\ st.start # 0 /\ st.depth_square > 0
                  THEN st.depth_square - 1
                  ELSE st.depth_square
        accepted(frag, obj) ==
            /\ curly = 0 /\ start # 0 /\ square = 0
            /\ Count(frag, "[") = Count(frag, "]")
            /\ ~obj.raises
            /\ ~(expect_multi /\ obj.isList /\ Len(obj.items) < 2)
        loads(frag) == accepted(frag, JsonLoads(frag))
    IN  [depth_curly |-> curly, start |-> start, depth_square |-> square,
         last |-> i, done |-> loads(SubSeq(s, start, i))]

\* _early_balance: the first accepted fragment of s, <<>> when there is
\* none.
early_balance(s, expect_multi) ==
    LET slice(st) == IF st.done THEN SubSeq(s, st.start, st.last) ELSE <<>>
    IN  slice(ForEach(LAMBDA a, ch, i : EarlyBody(s, expect_multi, a, ch, i),
                      [depth_curly |-> 0, start |-> 0, depth_square |-> 0,
                       last |-> 0, done |-> FALSE],
                      s, 1, Len(s)))

\* _stream_collect on a stream that delivers reply and ends: the early
\* fragment as soon as the buffer holds one, otherwise the whole buffer.
stream_collect(reply, expect_multi) ==
    LET buffer(bs) == IF bs # <<>> THEN bs ELSE reply
    IN  buffer(early_balance(reply, expect_multi))

\* content.strip().startswith('{') and '"plan"' in content
LooksLikePlan(content) ==
    StartsWith(strip(content), <<"{">>) /\ Contains(content, <<"\"", "p", "l", "a", "n", "\"">>)

\* re.search(r"\{[\s\S]*\}", s): from the first "{" to the last "}".
GreedyObject(s) ==
    LET opens == {i \in 1..Len(s) : s[i] = "{"}
        first == CHOOSE i \in opens : \A k \in opens : i <= k
        closes == {i \in 1..Len(s) : s[i] = "}" /\ i > first}
    IN  IF opens = {} \/ closes = {} THEN <<>>
        ELSE SubSeq(s, first, CHOOSE j \in closes : \A k \in closes : j >= k)

\* The light validation of plan(): entries that are mappings with a textual
\* "call" (or, failing that, "action") are kept as {"call", "args"}; args
\* that are no mapping become {}; reference_motion's "motion" is renamed
\* to "name".
RECURSIVE Cleaned(_)
Cleaned(items) ==
    IF items = <<>> THEN <<>>
    ELSE LET e == Head(items)
             call == IF e.call.truthy THEN e.call ELSE e.action
             args == IF e.argsIsDict THEN e.args ELSE <<>>
             named == IF call.s = "reference_motion" /\ ~Has(args, "name")
                         /\ Has(args, "motion")
                      THEN [k \in (DOMAIN args \ {"motion"}) \cup {"name"} |->
                               IF k = "name" THEN args.motion ELSE args[k]]
                      ELSE args
         IN  IF e.isDict /\ call.kind = "str"
             THEN <<Step(call.s, named)>> \o Cleaned(Tail(items))
             ELSE Cleaned(Tail(items))

\* The validation of the refinement reply: mappings with a textual "call".
RECURSIVE Cleaned2(_)
Cleaned2(items) ==
    IF items = <<>> THEN <<>>
    ELSE LET e == Head(items)
         IN  IF e.isDict /\ e.call.kind = "str"
             THEN <<Step(e.call.s, IF e.argsIsDict THEN e.args ELSE <<>>)>>
                  \o Cleaned2(Tail(items))
             ELSE Cleaned2(Tail(items))

\* A plan that is the single step reference_motion yes.
TrivialYes(p) ==
    /\ Len(p) = 1 /\ p[1].call = "reference_motion"
    /\ Has(p[1].args, "name") /\ p[1].args.name = "yes"

\* A question gets a morse answer: a validated plan without tap_morse and
\* reference_motion is replaced by the rule plan's leading tap_morse.
QuestionOverride(text, cleaned) ==
    LET override(repl) ==
            IF /\ EndsWith(lower(text), <<"?">>)
               /\ \A i \in 1..Len(cleaned) :
                     cleaned[i].call \notin {"tap_morse", "reference_motion"}
               /\ repl # <<>> /\ repl[1].call = "tap_morse"
            THEN <<repl[1]>> ELSE cleaned
    IN  override(rule_plan(text))

\* The trivial yes motion was given for an imperative.
NeedsRefinement(text, cleaned) ==
    LET imperative_verbs == {<<"w", "a", "v", "e">>, <<"o", "p", "e", "n">>, <<"c", "l", "o", "s", "e">>, <<"d", "r", "a", "w">>, <<"t", "a", "p">>,
                             <<"k", "a", "r", "a", "t", "e">>, <<"p", "u", "n", "c", "h">>, <<"m", "o", "v", "e">>, <<"m", "a", "k", "e">>,
                             <<"p", "e", "r", "f", "o", "r", "m">>, <<"d", "o", " ">>}
        imperative(low) ==
            /\ ~(\/ EndsWith(low, <<"?">>)
                 \/ \E p \in {<<"i", "s", " ">>, <<"a", "r", "e", " ">>, <<"d", "o", " ">>, <<"d", "o", "e", "s", " ">>, <<"c", "a", "n", " ">>,
                              <<"w", "i", "l", "l", " ">>} : StartsWith(low, p))
            /\ \E v \in imperative_verbs : Contains(low, v)
    IN  TrivialYes(cleaned) /\ imperative(lower(text))

\* The utterance triggers the arithmetic fast path (which imports re into
\* plan()'s scope whether or not it finds an answer).
ArithTrigger(low) ==
    \E k \in {<<" ", "p", "l", "u", "s", " ">>, <<" ", "m", "i", "n", "u", "s", " ">>, <<" ", "t", "i", "m", "e", "s", " ">>, <<" ", "d", "i", "v", "i", "d", "e", "d", " ", "b", "y", " ">>, <<"*">>,
              <<"/">>, <<"+">>} : Contains(low, k)

\* The utterance triggers the preference fast path.
PreferenceTrigger(low) ==
    /\ \E w \in {<<" ", "b", "e", "t", "t", "e", "r", " ">>, <<" ", "f", "a", "v", "o", "r", "i", "t", "e", " ">>, <<" ", "p", "r", "e", "f", "e", "r", " ">>} : Contains(low, w)
    /\ EndsWith(low, <<"?">>)

\* self._expect_multi
ExpectMulti(low) ==
    \E tok \in {<<" ", "t", "h", "e", "n", " ">>, <<" ", "a", "n", "d", " ", "t", "h", "e", "n", " ">>, <<" ", "a", "n", "d", " ">>, <<" ", "a", "f", "t", "e", "r", " ">>} :
        Contains(low, tok)


\* ------------------------------------------------------ planner, backends
\* The environments the planner is started in: which of LEROBOT_OLLAMA_MODEL
\* (ollama), LEROBOT_OPENAI_BASE (remote) and LEROBOT_SKIP_LOCAL (skip_local)
\* are set, and whether the embedded model can be loaded (local_ok).
Env(ollama, remote, skip_local, local_ok) ==
    [ollama |-> ollama, remote |-> remote, skip_local |-> skip_local,
     local_ok |-> local_ok]

EnvEmbedded == Env(FALSE, FALSE, FALSE, TRUE)
EnvNoModel == Env(FALSE, FALSE, FALSE, FALSE)
EnvRemote == Env(FALSE, TRUE, FALSE, FALSE)
EnvDaemon == Env(TRUE, FALSE, FALSE, FALSE)
EnvRemoteDaemon == Env(TRUE, TRUE, FALSE, FALSE)
EnvSkipLocal == Env(FALSE, FALSE, TRUE, TRUE)
EnvSkipDaemon == Env(TRUE, FALSE, TRUE, FALSE)

Environments ==
    {EnvEmbedded, EnvNoModel, EnvRemote, EnvDaemon, EnvRemoteDaemon,
     EnvSkipLocal, EnvSkipDaemon}

\* SimpleToolsPlanner.__init__; ensured says that _ensure_model has bound
\* self._remote_endpoint, reach_checked is _ollama_reachability_checked, the
\* cache is the dict as its items in insertion order.
NewPlanner ==
    [loaded |-> FALSE, failed |-> FALSE, ensured |-> FALSE,
     reach_checked |-> FALSE, ollama_disabled |-> FALSE,
     ollama_fail_count |-> 0, expect_multi |-> FALSE,
     last_origin |-> "unknown", cache |-> <<>>]

\* _ensure_model
ensure_model(p) ==
    IF p.loaded \/ p.failed THEN p
    ELSE LET p1 == [p EXCEPT !.ensured = TRUE]
         IN  IF osenv.skip_local THEN [p1 EXCEPT !.failed = TRUE]
             ELSE IF osenv.remote THEN p1
             ELSE IF osenv.ollama /\ ~p1.ollama_disabled THEN p1
             ELSE IF osenv.local_ok THEN [p1 EXCEPT !.loaded = TRUE]
             ELSE [p1 EXCEPT !.failed = TRUE]

\* A run of _gen is at st: "off", or waiting for the answer to the request
\* it sent last ("post" to the remote endpoint; "reach", "s1", "s2", "s3" to
\* the daemon; "pipe1", "pipe2" to the embedded pipeline); c1 is the content
\* of the first stream.
NoGen == [st |-> "off", c1 |-> <<>>]

\* What a step of _gen comes to: it waits for a request (g), it returns
\* text, or it raises.
GWait(p, st, c1) ==
    [p |-> p, kind |-> "wait", g |-> [st |-> st, c1 |-> c1], text |-> <<>>]

GRet(p, text) == [p |-> p, kind |-> "ret", g |-> NoGen, text |-> text]

GExc(p) == [p |-> p, kind |-> "exc", g |-> NoGen, text |-> <<>>]

\* The handler of the daemon branch: the daemon is given up and "" returned.
OllamaFailed(p) ==
    GRet([p EXCEPT !.ollama_disabled = TRUE, !.failed = TRUE], <<>>)

\* _gen as it would be if the daemon branch did not test self._failed.
gen_enter_daemon_unguarded(p) ==
    LET p1 == ensure_model(p)
    IN  IF ~p1.ensured THEN GExc(p1)
        ELSE IF osenv.remote /\ ~p1.loaded /\ ~p1.failed
        THEN GWait(p1, "post", <<>>)
        ELSE IF osenv.ollama /\ ~p1.loaded
        THEN (IF ~p1.reach_checked
              THEN GWait([p1 EXCEPT !.reach_checked = TRUE], "reach", <<>>)
              ELSE GWait(p1, "s1", <<>>))
        ELSE IF p1.loaded THEN GWait(p1, "pipe1", <<>>)
        ELSE GExc(p1)

\* _gen up to its first request.  Reading self._remote_endpoint raises when
\* _ensure_model has never got past its first test; the embedded pipeline
\* that was never loaded fails both attempts.
gen_enter(p) ==
    LET p1 == ensure_model(p)
    IN  IF ~p1.ensured THEN GExc(p1)
        ELSE IF osenv.remote /\ ~p1.loaded /\ ~p1.failed
        THEN GWait(p1, "post", <<>>)
        ELSE IF osenv.ollama /\ ~p1.loaded /\ ~p1.failed
        THEN (IF ~p1.reach_checked
              THEN GWait([p1 EXCEPT !.reach_checked = TRUE], "reach", <<>>)
              ELSE GWait(p1, "s1", <<>>))
        ELSE IF p1.loaded THEN GWait(p1, "pipe1", <<>>)
        ELSE GExc(p1)

\* _gen goes on with the answer r to its request.
gen_reply(p, g, r) ==
    LET streamed(content) ==
            CASE g.st = "s1" ->
                    IF LooksLikePlan(content) THEN GRet(p, content)
                    ELSE GWait(p, "s2", content)
              [] g.st = "s2" ->
                    IF content # <<>> /\ LooksLikePlan(content)
                    THEN GRet(p, content)
                    ELSE GWait(p, "s3", g.c1)
              [] g.st = "s3" ->
                    IF content # <<>> /\ LooksLikePlan(content)
                    THEN GRet(p, content)
                    ELSE GRet(p, g.c1)
    IN  CASE g.st \in {"post", "pipe1", "pipe2"} -> GRet(p, r)
          [] g.st = "reach" -> GWait(p, "s1", <<>>)
          [] g.st \in {"s1", "s2", "s3"} ->
                streamed(stream_collect(r, p.expect_multi))

\* _gen goes on after its request raised.
gen_error(p, g) ==
    CASE g.st = "post" -> GExc(p)
      [] g.st \in {"reach", "s1", "s2", "s3"} -> OllamaFailed(p)
      [] g.st = "pipe1" -> GWait(p, "pipe2", <<>>)
      [] g.st = "pipe2" -> GExc(p)


\* ------------------------------------------------------- planner, plan()
\* The value of a generation call: None, or text.
None == [none |-> TRUE, text |-> <<>>]
Txt(t) == [none |-> FALSE, text |-> t]
Truthy(v) == ~v.none /\ v.text # <<>>

\* What _gen's outcome o is to the code that called it under try/except.
Outcome(o) == IF o.kind = "exc" THEN None ELSE Txt(o.text)

\* The future a wait of _with_timeout is on.
NoFuture == [done |-> FALSE, res |-> None]

NoReturn == [kind |-> "none", via |-> "none", plan |-> <<>>]

\* A plan() call: pc is "idle", "wait" (blocked in a generation call),
\* "returned" or "raised"; stage names the generation call it is blocked
\* in, mode whether it runs _gen itself ("direct") or waits for the worker
\* ("future"); raw, cleaned and re_bound (plan() has imported re) are its
\* locals; gens counts the generation calls it has made (self._gen called,
\* or handed to _with_timeout), sent the backend requests made for it,
\* answered says that one of them was answered with text, timed_out that
\* one of its waits ran into the deadline; ret is what it came to and by
\* which exit.
IdleCall ==
    [pc |-> "idle", text |-> <<>>, stage |-> "none", mode |-> "none",
     fut |-> NoFuture, g |-> NoGen, raw |-> <<>>, cleaned |-> <<>>,
     re_bound |-> FALSE, gens |-> 0, sent |-> 0, answered |-> FALSE,
     timed_out |-> FALSE, ret |-> NoReturn]

\* The executor of the planner: jobs [fn, live] wait in queue, run is the
\* job the one worker thread is in, g where that job's _gen stands.  A job
\* is live while plan() waits for its future.
NoJob == [fn |-> "none", live |-> FALSE]
IdleWorker == [queue |-> <<>>, run |-> NoJob, g |-> NoGen]

\* plan() leaves by "return plan"; its locals are gone, but for the record
\* of the call: the first reply, the calls and requests made.
Return(S, via, plan) ==
    [S EXCEPT !.c = [IdleCall EXCEPT
                        !.pc = "returned", !.text = S.c.text,
                        !.raw = S.c.raw, !.gens = S.c.gens,
                        !.sent = S.c.sent, !.answered = S.c.answered,
                        !.timed_out = S.c.timed_out,
                        !.ret = [kind |-> "plan", via |-> via, plan |-> plan]]]

\* plan() leaves by an exception.
Raised(S, via) ==
    [S EXCEPT !.c = [IdleCall EXCEPT
                        !.pc = "raised", !.text = S.c.text,
                        !.raw = S.c.raw, !.gens = S.c.gens,
                        !.sent = S.c.sent, !.answered = S.c.answered,
                        !.timed_out = S.c.timed_out,
                        !.ret = [kind |-> "raise", via |-> via, plan |-> <<>>]]]

\* self.last_origin = 'rule'; return self._rule_plan(text)
RuleFallback(S) ==
    Return([S EXCEPT !.pl.last_origin = "rule"], "rule", rule_plan(S.c.text))

\* The cache holds at most this many entries before the oldest is dropped.
CacheLimit == 64

CacheHas(cache, text) == \E i \in 1..Len(cache) : cache[i][1] = text

CacheGet(cache, text) ==
    cache[CHOOSE i \in 1..Len(cache) : cache[i][1] = text][2]

\* if len(cache) > 64: pop the oldest; cache[text] = cleaned
CacheStore(cache, text, cleaned) ==
    LET kept == IF Len(cache) > CacheLimit THEN Tail(cache) ELSE cache
    IN  IF CacheHas(kept, text)
        THEN [i \in 1..Len(kept) |->
                 IF kept[i][1] = text THEN <<text, cleaned>> ELSE kept[i]]
        ELSE Append(kept, <<text, cleaned>>)

\* The order of last use after the text t was read or written.
Touch(order, t) == SelectSeq(order, LAMBDA x : x # t) \o <<t>>

\* The order of last use of the texts the cache still holds.
Kept(order, cache) == SelectSeq(order, LAMBDA x : CacheHas(cache, x))

\* last_origin = 'llm', the plan is cached and returned.
Accept(S, cleaned) ==
    LET stored == CacheStore(S.pl.cache, S.c.text, cleaned)
    IN  Return([S EXCEPT !.pl.last_origin = "llm",
                         !.pl.cache = stored,
                         !.used = Kept(Touch(@, S.c.text), stored)],
               "llm", cleaned)

\* plan() goes on after the generation call it was blocked in (defined
\* below, after the parts of plan() it goes on with).
RECURSIVE After(_, _)

\* plan() calls self._gen itself: it blocks at _gen's first request, or goes
\* on at once with what _gen came to.
DirectEntered(S, stage, o) ==
    IF o.kind = "wait"
    THEN [S EXCEPT !.pl = o.p,
                   !.c.pc = "wait", !.c.stage = stage,
                   !.c.mode = "direct", !.c.g = o.g,
                   !.c.sent = @ + 1]
    ELSE After([S EXCEPT !.pl = o.p, !.c.stage = stage], Outcome(o))

Direct(S, stage) ==
    DirectEntered([S EXCEPT !.c.gens = @ + 1], stage, gen_enter(S.pl))

\* _with_timeout: the job is handed to the executor and plan() waits for
\* its future.
Submit(S, fn, stage) ==
    [S EXCEPT !.wk.queue = Append(@, [fn |-> fn, live |-> TRUE]),
              !.c.pc = "wait", !.c.stage = stage, !.c.mode = "future",
              !.c.fut = NoFuture, !.c.gens = @ + 1]

\* The refinement reply replaces the trivial yes when it holds a plan that
\* is not the trivial yes again.
refine_cleaned(S, obj2, cleaned2) ==
    IF /\ ~obj2.raises /\ obj2.isList /\ obj2.items # <<>>
       /\ cleaned2 # <<>> /\ ~TrivialYes(cleaned2)
    THEN Return(S, "refined", cleaned2)
    ELSE Accept(S, S.c.cleaned)

refine_loaded(S, obj2) == refine_cleaned(S, obj2, Cleaned2(obj2.items))

refine_searched(S, m2) ==
    IF m2 # <<>> THEN refine_loaded(S, JsonLoads(m2))
    ELSE Accept(S, S.c.cleaned)

\* plan() from "if raw2:" on; re.search needs the name re, which only the
\* arithmetic branch has bound.
after_refine(S, raw2) ==
    IF ~Truthy(raw2) THEN Accept(S, S.c.cleaned)
    ELSE IF ~S.c.re_bound THEN RuleFallback(S)
    ELSE refine_searched(S, GreedyObject(raw2.text))

\* plan() after _with_timeout(self._gen, refine): with the daemon configured
\* a None is followed by a direct call.
after_refine_w(S, raw2) ==
    IF raw2.none /\ osenv.ollama THEN Direct(S, "refine_d")
    ELSE after_refine(S, raw2)

\* The request for a refinement, or the cache.
validate_checked(S, cleaned) ==
    IF NeedsRefinement(S.c.text, cleaned)
    THEN Submit([S EXCEPT !.c.cleaned = cleaned], "gen", "refine_w")
    ELSE Accept(S, cleaned)

\* The question override.
validate_cleaned(S, cleaned0) ==
    IF cleaned0 = <<>> THEN RuleFallback(S)
    ELSE validate_checked(S, QuestionOverride(S.c.text, cleaned0))

\* The light validation.
validate_loaded(S, obj) ==
    IF obj.raises \/ ~obj.isList THEN RuleFallback(S)
    ELSE validate_cleaned(S, Cleaned(obj.items))

\* plan() from json.loads(m) on: validation, the question override, the
\* request for a refinement, the cache.
validate(S, m) == validate_loaded(S, JsonLoads(m))

\* "if plan: last_origin = 'salvage'; return plan" for the result h of a
\* heuristic, else what follows.
salvaged(S, h, via, otherwise) ==
    IF h.found
    THEN Return([S EXCEPT !.pl.last_origin = "salvage"], via, h.plan)
    ELSE otherwise

\* Repair, then salvage, of both replies, then the rule plan.
force_heuristics(S, both) ==
    salvaged(S, repair_to_json(S.c.text, both), "repair",
             salvaged(S, salvage_plan(S.c.text, both), "salvage",
                      RuleFallback(S)))

force_parsed(S, raw_force, m) ==
    IF m # <<>> THEN validate(S, m)
    ELSE force_heuristics(S, raw_force.text \o <<"\n">> \o S.c.raw)

\* plan() after the reprompt: its object if it has one, else the
\* heuristics.
after_force(S, raw_force) ==
    force_parsed(S, raw_force,
                 IF Truthy(raw_force) THEN FirstJsonObject(raw_force.text)
                 ELSE <<>>)

first_parsed(S, m) ==
    IF m # <<>> THEN validate(S, m)
    ELSE IF osenv.ollama THEN Direct(S, "force")
    ELSE Submit(S, "gen", "force")

\* plan() after the first generation call.
after_first(S, raw) ==
    LET n == S.pl.ollama_fail_count + 1
    IN  IF raw.none
        THEN RuleFallback(IF osenv.ollama
                          THEN [S EXCEPT !.pl.ollama_fail_count = n,
                                         !.pl.ollama_disabled = @ \/ n >= 2,
                                         !.pl.failed = @ \/ n >= 2]
                          ELSE S)
        ELSE first_parsed([S EXCEPT !.c.raw = raw.text],
                          FirstJsonObject(raw.text))

After(S, v) ==
    CASE S.c.stage = "first" -> after_first(S, v)
      [] S.c.stage = "force" -> after_force(S, v)
      [] S.c.stage = "refine_w" -> after_refine_w(S, v)
      [] S.c.stage = "refine_d" -> after_refine(S, v)

\* plan() from the rule plan of a planner without any backend to its first
\* generation call; _context() is called outside every try.
generate(S, low) ==
    IF S.pl.failed /\ ~(osenv.ollama \/ osenv.remote)
    THEN Return(S, "failed", rule_plan(S.c.text))
    ELSE IF load_references(refsFile).raised THEN Raised(S, "context")
    ELSE IF osenv.ollama
    THEN Direct([S EXCEPT !.c.re_bound = ArithTrigger(low),
                          !.pl.expect_multi = ExpectMulti(low)], "first")
    ELSE Submit([S EXCEPT !.c.re_bound = ArithTrigger(low),
                          !.pl.expect_multi = ExpectMulti(low)],
                "lambda", "first")

preference_answer(S, choice) ==
    Return(S, "preference",
           IF choice.found
           THEN <<Step("tap_morse", [text |-> choice.text])>>
           ELSE <<Step("reference_motion", [name |-> "dunno"])>>)

\* The fast paths of arithmetic and of preference questions.
fast_paths(S, low, arith) ==
    IF ArithTrigger(low) /\ arith.found
    THEN Return(S, "arith", <<Step("tap_morse", [text |-> arith.text])>>)
    ELSE IF PreferenceTrigger(low)
    THEN preference_answer(S, PreferenceChoice(S.c.text))
    ELSE generate(S, low)

\* plan() as it would be without the stop-word test of line 627.
plan_text_without_stop(S, text, low) ==
    LET S0 == [S EXCEPT !.c = [IdleCall EXCEPT !.text = text]]
    IN  IF text = <<>> THEN Return(S0, "blank", <<>>)
        ELSE IF CacheHas(S.pl.cache, text)
        THEN Return([S0 EXCEPT !.used = Touch(@, text)],
                    "cache", CacheGet(S.pl.cache, text))
        ELSE fast_paths(IF osenv.skip_local /\ ~S.pl.failed
                        THEN [S0 EXCEPT !.pl.failed = TRUE] ELSE S0,
                        low, ArithAnswer(low))

\* plan() on the stripped text and its lower case: nothing, a cached plan,
\* a stop word; LEROBOT_SKIP_LOCAL marks the planner failed.
plan_text(S, text, low) ==
    LET S0 == [S EXCEPT !.c = [IdleCall EXCEPT !.text = text]]
    IN  IF text = <<>> THEN Return(S0, "blank", <<>>)
        ELSE IF CacheHas(S.pl.cache, text)
        THEN Return([S0 EXCEPT !.used = Touch(@, text)],
                    "cache", CacheGet(S.pl.cache, text))
        ELSE IF low \in {<<"s", "t", "o", "p">>, <<"e", "x", "i", "t">>, <<"q", "u", "i", "t">>}
        THEN Return(S0, "stop", <<>>)
        ELSE fast_paths(IF osenv.skip_local /\ ~S.pl.failed
                        THEN [S0 EXCEPT !.pl.failed = TRUE] ELSE S0,
                        low, ArithAnswer(low))

plan_stripped(S, text) == plan_text(S, text, lower(text))

\* plan() from its entry to its first generation call.  The fast paths and
\* the rule plan of a planner without any backend leave last_origin alone.
plan_enter(S, user_text) == plan_stripped(S, strip(user_text))

\* A worker whose value goes to the future plan() waits on now, whichever
\* call the job was submitted for.
FinishInWaitedFuture(S, v) ==
    [S EXCEPT !.wk.run = NoJob, !.wk.g = NoGen,
              !.c.fut = [done |-> TRUE, res |-> v]]

\* The job leaves the worker thread; its value goes to the future if plan()
\* still waits for it.
Finish(S, v) ==
    LET S1 == [S EXCEPT !.wk.run = NoJob, !.wk.g = NoGen]
    IN  IF S.wk.run.live
        THEN [S1 EXCEPT !.c.fut = [done |-> TRUE, res |-> v]]
        ELSE S1

\* submit(fn, timeout=base_timeout) has the worker call the lambda with a
\* timeout keyword it does not take: the call raises TypeError before _gen
\* is entered.
LambdaJob(S) == Finish(S, None)

\* The worker runs self._gen(prompt) up to its first request.
GenJob(S) ==
    LET entered(o) ==
            IF o.kind = "wait"
            THEN [S EXCEPT !.pl = o.p, !.wk.g = o.g,
                           !.c.sent = IF S.wk.run.live THEN @ + 1 ELSE @]
            ELSE Finish([S EXCEPT !.pl = o.p], Outcome(o))
    IN  entered(gen_enter(S.pl))

\* fut.cancel(): a job that has not started is taken out of the queue, a
\* running one runs on without anybody waiting for it.
Cancel(S) ==
    [S EXCEPT !.wk.queue = SelectSeq(@, LAMBDA j : ~j.live),
              !.wk.run.live = FALSE]

\* ----------------------------------------------------- planner's caller
\* What a list plan() returned shares with the cache, by the exit it
\* came from.  "return cleaned" after "self._cache[text] = cleaned" hands out
\* the cached list itself ("list"); a cache hit returns a new list of new
\* step dicts, dict(step), whose args values are still the cached args
\* dicts ("args"); every other exit builds its list anew ("none").
Shared(via) ==
    CASE via = "llm" -> "list"
      [] via = "cache" -> "args"
      [] OTHER -> "none"

\* What the caller does to a list it holds: plan.append(step), plan.pop(),
\* plan[0] = step, plan[0]["args"][key] = value.
Mutations == {"append", "pop", "replace", "args"}

SetKey(d, k, v) == [x \in DOMAIN d \cup {k} |-> IF x = k THEN v ELSE d[x]]

Mutate(plan, m) ==
    CASE m = "append" -> Append(plan, Step("speak", [text |-> <<"h", "i">>]))
      [] m = "pop" -> SubSeq(plan, 1, Len(plan) - 1)
      [] m = "replace" ->
            [plan EXCEPT ![1] = Step("wait", [seconds |-> Num(1000000)])]
      [] m = "args" ->
            [plan EXCEPT ![1].args = SetKey(@, "repetitions", Num(9))]

\* The cache after the caller's mutation m of the list the call c returned:
\* the cached list is the mutated list itself, or its first step has the
\* mutated args dict.
CacheAfter(cache, c, m) ==
    IF ~CacheHas(cache, c.text) THEN cache
    ELSE [i \in 1..Len(cache) |->
             IF cache[i][1] # c.text THEN cache[i]
             ELSE IF Shared(c.ret.via) = "list"
             THEN <<c.text, Mutate(c.ret.plan, m)>>
             ELSE IF Shared(c.ret.via) = "args" /\ m = "args"
             THEN <<c.text,
                    [cache[i][2] EXCEPT
                        ![1].args = Mutate(c.ret.plan, m)[1].args]>>
             ELSE cache[i]]

\* --------------------------------------------------------- planner inputs
\* plan() calls made in one behaviour.
MaxCalls == 2

\* The utterances plan() is called with: nothing, a stop word, imperatives
\* (one of them with an operator sign), arithmetic in words and in signs,
\* and preference questions the fast path does and does not recognise.
Spoken ==
    {U_blank, U_stop, U_wave, U_wave_plus, U_times, U_minus, U_better_mid,
     U_better_end}

\* The texts a backend answers a request with: a plan, the trivial yes
\* motion, and prose.
Generated == {R_draw, R_yes, R_prose_wave}

\* ---------------------------------------------------------- planner actions
St == [pl |-> pl, c |-> pcall, wk |-> wk, used |-> used]

Become(S) ==
    \E T \in {S} :
        pl' = T.pl /\ pcall' = T.c /\ wk' = T.wk /\ used' = T.used

PlanInit ==
    /\ hw = FALSE
    /\ verbose = FALSE
    /\ limitsFile = NoLimitsFile
    /\ calibFile = NoCalibFile
    /\ refsFile \in {CatalogRefsFile, BrokenRefsFile}
    /\ rc = [bus |-> FALSE, simulation |-> FALSE]
    /\ motor = StartPose
    /\ epc = "idle"
    /\ idx = 0
    /\ step = Step("", <<>>)
    /\ did_motion = FALSE
    /\ trace = <<>>
    /\ hist = {}
    /\ osenv \in Environments
    /\ pl = NewPlanner
    /\ pcall = IdleCall
    /\ wk = IdleWorker
    /\ calls = 0
    /\ mutated = FALSE
    /\ used = <<>>

\* plan(user_text) is called and runs to its first wait or to its end.
PlanCall(user_text) ==
    /\ pcall.pc \in {"idle", "returned", "raised"}
    /\ calls < MaxCalls
    /\ calls' = calls + 1
    /\ mutated' = FALSE
    /\ Become(plan_enter(St, user_text))
    /\ UNCHANGED <<envVars, execVars, osenv>>

\* Between two calls the caller changes the list plan() returned last, once.
CallerMutates(m) ==
    /\ pcall.pc = "returned"
    /\ ~mutated
    /\ m = "append" \/ pcall.ret.plan # <<>>
    /\ mutated' = TRUE
    /\ pl' = [pl EXCEPT !.cache = CacheAfter(@, pcall, m)]
    /\ UNCHANGED <<envVars, execVars, osenv, pcall, wk, calls, used>>

\* The backend answers the request plan()'s own _gen waits for with r;
\* _gen, and after it plan(), run to the next wait or to the end.
BackendReply(r) ==
    /\ pcall.pc = "wait" /\ pcall.mode = "direct"
    /\ \E o \in {gen_reply(pl, pcall.g, r)} :
       LET S1 == [St EXCEPT !.pl = o.p,
                            !.c.answered = @ \/ pcall.g.st # "reach"]
       IN  Become(IF o.kind = "wait"
                  THEN [S1 EXCEPT !.c.g = o.g, !.c.sent = @ + 1]
                  ELSE After(S1, Outcome(o)))
    /\ UNCHANGED <<envVars, execVars, osenv, calls, mutated>>

\* The request plan()'s own _gen waits for raises (refused, reset, timed out
\* on the socket).
BackendError ==
    /\ pcall.pc = "wait" /\ pcall.mode = "direct"
    /\ \E o \in {gen_error(pl, pcall.g)} :
       LET S1 == [St EXCEPT !.pl = o.p]
       IN  Become(IF o.kind = "wait"
                  THEN [S1 EXCEPT !.c.g = o.g, !.c.sent = @ + 1]
                  ELSE After(S1, Outcome(o)))
    /\ UNCHANGED <<envVars, execVars, osenv, calls, mutated>>

\* The worker thread takes the next job of the queue.
WorkerRun ==
    /\ wk.run = NoJob /\ wk.queue # <<>>
    /\ LET S0 == [St EXCEPT !.wk.queue = Tail(@), !.wk.run = Head(wk.queue)]
       IN  Become(IF S0.wk.run.fn = "lambda" THEN LambdaJob(S0)
                  ELSE GenJob(S0))
    /\ UNCHANGED <<envVars, execVars, osenv, calls, mutated>>

\* The backend answers the request the worker's _gen waits for with r.
WorkerReply(r) ==
    /\ wk.g.st # "off"
    /\ \E o \in {gen_reply(pl, wk.g, r)} :
       LET live == wk.run.live
           S1 == [St EXCEPT !.pl = o.p,
                            !.c.answered = @ \/ (live /\ wk.g.st # "reach")]
       IN  Become(IF o.kind = "wait"
                  THEN [S1 EXCEPT !.wk.g = o.g,
                                  !.c.sent = IF live THEN @ + 1 ELSE @]
                  ELSE Finish(S1, Outcome(o)))
    /\ UNCHANGED <<envVars, execVars, osenv, calls, mutated>>

\* The request the worker's _gen waits for raises.
WorkerError ==
    /\ wk.g.st # "off"
    /\ \E o \in {gen_error(pl, wk.g)} :
       LET S1 == [St EXCEPT !.pl = o.p]
       IN  Become(IF o.kind = "wait"
                  THEN [S1 EXCEPT !.wk.g = o.g,
                                  !.c.sent = IF wk.run.live THEN @ + 1 ELSE @]
                  ELSE Finish(S1, Outcome(o)))
    /\ UNCHANGED <<envVars, execVars, osenv, calls, mutated>>

\* fut.result(timeout) returns or raises what the job came to.
FutureDone ==
    /\ pcall.pc = "wait" /\ pcall.mode = "future" /\ pcall.fut.done
    /\ Become(After(St, pcall.fut.res))
    /\ UNCHANGED <<envVars, execVars, osenv, calls, mutated>>

\* fut.result(timeout) runs into its deadline: the future is cancelled and
\* _with_timeout returns None.
FutureTimeout ==
    /\ pcall.pc = "wait" /\ pcall.mode = "future" /\ ~pcall.fut.done
    /\ Become(After(Cancel([St EXCEPT !.c.timed_out = TRUE]), None))
    /\ UNCHANGED <<envVars, execVars, osenv, calls, mutated>>

Next ==
    \/ \E u \in Spoken : PlanCall(u)
    \/ \E m \in Mutations : CallerMutates(m)
    \/ \E r \in Generated : BackendReply(r)
    \/ BackendError
    \/ WorkerRun
    \/ \E r \in Generated : WorkerReply(r)
    \/ WorkerError
    \/ FutureDone
    \/ FutureTimeout

Spec == PlanInit /\ [][Next]_vars

\* ------------------------------------------------------- executor inputs
\* The steps a plan may be made of: every tool, with arguments in range, out
\* of range and malformed, names the executor does not know, and the keys
\* and spellings it also accepts.
Steps ==
    { Step("speak", [text |-> <<"h", "i">>]),
      Step("wait", [seconds |-> Num(400000)]),
      Step("wait", [seconds |-> Num(30000000)]),
      Step("wait", [seconds |-> Bad]),
      Step("move_joint", [name |-> "gripper", position |-> Num(5000)]),
      Step("move_joint", [name |-> "wrist_roll", position |-> Num(1000)]),
      Step("move_joint", [name |-> "gripper", position |-> Bad]),
      Step("move_joints", [values |-> << <<"wrist_flex", Num(2600)>>,
                                         <<"elbow_flex", Num(-50)>> >>]),
      Step("relative_move", [deltas |-> << <<"shoulder_pan", Num(300)>>,
                                           <<"elbow_flex", Num(-3000)>> >>]),
      Step("open_gripper", <<>>),
      Step("close_gripper", <<>>),
      Step("wave", [repetitions |-> Num(1)]),
      Step("wave", [repetitions |-> Bad]),
      Step("WAVE", [repetitions |-> Num(0)]),
      [action |-> "wave"],
      Step("tap_morse", [text |-> <<"a", "t", " ", "e">>, unit_ms |-> Num(100)]),
      Step("tap_morse", [text |-> <<>>]),
      Step("dance", [style |-> "small", duration_s |-> Num(1)]),
      Step("draw_shape", [shape |-> "circle", size_mm |-> Num(60)]),
      Step("draw_shape", [shape |-> "square", size_mm |-> Num(200)]),
      Step("draw_shape", [shape |-> "triangle", size_mm |-> Num(10)]),
      Step("trajectory",
           [steps |-> << [relative_move |-> << <<"shoulder_pan", Num(100)>> >>],
                         [wait |-> Num(300000)],
                         [move_joints |-> << <<"wrist_roll", Num(2500)>> >>],
                         [wait |-> Bad] >>]),
      Step("trajectory",
           [steps |-> << [wait |-> Num(-2000000)],
                         [wait |-> Num(30000000)] >>]),
      Step("reference_motion", [name |-> "yes"]),
      Step("reference_motion", [name |-> "moonwalk"]),
      Step("levitate", <<>>),
      Step("", <<>>) }

\* The kind of a step, for the history of a run: a joint or gesture step, a
\* gripper step, a step that moves nothing by itself, an unknown name.
StepKind(s) ==
    LET name == StepName(s)
    IN  IF name \in {"move_joint", "move_joints", "relative_move", "wave",
                     "dance", "draw_shape", "trajectory", "reference_motion"}
        THEN "motion"
        ELSE IF name \in {"open_gripper", "close_gripper"} THEN "gripper"
        ELSE IF name \in {"speak", "wait", "tap_morse"} THEN "passive"
        ELSE "unknown"

\* -------------------------------------------------------- executor actions
ExecInit ==
    /\ hw \in BOOLEAN
    /\ verbose \in BOOLEAN
    /\ limitsFile \in LimitsFiles
    /\ calibFile \in CalibFiles
    /\ refsFile \in RefsFiles
    /\ rc = [bus |-> FALSE, simulation |-> FALSE]
    /\ motor = StartPose
    /\ epc = "idle"
    /\ idx = 0
    /\ step = Step("", <<>>)
    /\ did_motion = FALSE
    /\ trace = <<>>
    /\ hist = {}
    /\ osenv = EnvNoModel
    /\ pl = NewPlanner
    /\ pcall = IdleCall
    /\ wk = IdleWorker
    /\ calls = 0
    /\ mutated = FALSE
    /\ used = <<>>

RcOf(m) == [bus |-> m.bus, simulation |-> m.simulation]

\* AgentRobot.connect()
RobotConnect ==
    /\ epc = "idle"
    /\ ~rc.bus /\ ~rc.simulation
    /\ rc' = RcOf(connect(Machine(rc)))
    /\ UNCHANGED <<envVars, planVars, motor, epc, idx, step, did_motion, trace, hist>>

\* AgentRobot.disconnect()
RobotDisconnect ==
    /\ epc = "idle"
    /\ rc.bus \/ rc.simulation
    /\ rc' = RcOf(disconnect(Machine(rc)))
    /\ UNCHANGED <<envVars, planVars, motor, epc, idx, step, did_motion, trace, hist>>

\* execute_plan is entered: did_motion = False.
ExecBegin ==
    /\ epc = "idle"
    /\ epc' = "running"
    /\ idx' = 0
    /\ did_motion' = FALSE
    /\ trace' = <<>>
    /\ hist' = {}
    /\ UNCHANGED <<envVars, planVars, rc, motor, step>>

\* The loop body on the next step of the plan.
ExecStep(s) ==
    /\ epc = "running"
    /\ idx < MaxPlanLen
    /\ LET r == Dispatch(Machine(rc), s)
       IN  /\ rc' = RcOf(r.m)
           /\ trace' = r.m.ev
           /\ motor' = MotorAfter(motor, r.m.ev)
           /\ epc' = IF r.m.raised THEN "raised" ELSE "running"
           /\ did_motion' = IF r.m.raised THEN did_motion
                            ELSE (did_motion \/ r.motion)
    /\ idx' = idx + 1
    /\ step' = s
    /\ hist' = hist \cup {StepKind(s)}
    /\ UNCHANGED <<envVars, planVars>>

\* The loop is over: the return to home when did_motion is set.
ExecFinish ==
    /\ epc = "running"
    /\ LET m == FinalHome(Machine(rc))
       IN  /\ rc' = RcOf(m)
           /\ trace' = m.ev
           /\ motor' = MotorAfter(motor, m.ev)
    /\ epc' = "done"
    /\ UNCHANGED <<envVars, planVars, idx, step, did_motion, hist>>

ExecNext ==
    \/ RobotConnect
    \/ RobotDisconnect
    \/ ExecBegin
    \/ \E s \in Steps : ExecStep(s)
    \/ ExecFinish

ExecSpec == ExecInit /\ [][ExecNext]_vars

\* ----------------------------------------------- _rule_plan called directly
\* Longest utterance _rule_plan is given, in phrases.
MaxPhrases == 3

\* The phrases utterances are made of, and what they end with: nothing, a
\* question mark, a blank.
Phrases ==
    {<<"o", "p", "e", "n">>, <<"c", "l", "o", "s", "e">>, <<"t", "h", "e", " ", "g", "r", "i", "p", "p", "e", "r">>, <<"t", "h", "e", "n", " ", "c", "l", "o", "s", "e", " ", "i", "t">>, <<"w", "a", "v", "e">>,
     <<"S", "t", "o", "p">>, <<"q", "u", "i", "t">>, <<"i", "s">>, <<"2">>}

Endings == {<<>>, <<"?">>, <<" ">>}

RECURSIVE Joined(_)
Joined(ps) ==
    IF ps = <<>> THEN <<>>
    ELSE IF Len(ps) = 1 THEN ps[1]
    ELSE ps[1] \o <<" ">> \o Joined(Tail(ps))

Commands ==
    UNION {{Joined(ps) \o e : ps \in [1..n -> Phrases], e \in Endings} :
           n \in 0..MaxPhrases}

RuleInit ==
    /\ hw = FALSE
    /\ verbose = FALSE
    /\ limitsFile = NoLimitsFile
    /\ calibFile = NoCalibFile
    /\ refsFile = CatalogRefsFile
    /\ rc = [bus |-> FALSE, simulation |-> FALSE]
    /\ motor = StartPose
    /\ epc = "idle"
    /\ idx = 0
    /\ step = Step("", <<>>)
    /\ did_motion = FALSE
    /\ trace = <<>>
    /\ hist = {}
    /\ osenv = EnvNoModel
    /\ pl = NewPlanner
    /\ pcall = IdleCall
    /\ wk = IdleWorker
    /\ calls = 0
    /\ mutated = FALSE
    /\ used = <<>>

\* planner._rule_plan(text) is called once and returns.
RuleCall(text) ==
    /\ pcall.pc = "idle"
    /\ pcall' = [IdleCall EXCEPT
                    !.pc = "returned", !.text = text,
                    !.ret = [kind |-> "plan", via |-> "rule_plan",
                             plan |-> rule_plan(text)]]
    /\ UNCHANGED <<envVars, execVars, osenv, pl, wk, calls, mutated, used>>

RuleNext == \E text \in Commands : RuleCall(text)

RuleSpec == RuleInit /\ [][RuleNext]_vars

\* ------------------------------------------------------ the cache filling
\* plan() calls made in one behaviour that fills the cache: enough to fill
\* it, to read the oldest entry and to store two more.
MaxFills == 67

Numeral(n) ==
    LET digit(d) == <<"0", "1", "2", "3", "4", "5", "6", "7", "8", "9">>[d + 1]
    IN  IF n < 10 THEN <<digit(n)>> ELSE <<digit(n \div 10), digit(n % 10)>>

\* The n-th command of the caller.
Command(n) == <<"d", "r", "a", "w", " ", "n", "u", "m", "b", "e", "r", " ">> \o Numeral(n)

\* The first command that is not in the cache and has never been.
NextFresh ==
    CHOOSE n \in 1..(MaxFills + 1) :
        /\ \A m \in n..MaxFills : ~CacheHas(pl.cache, Command(m))
        /\ n = 1 \/ CacheHas(pl.cache, Command(n - 1))

\* What the caller says next: a new command, or, once the cache holds
\* CacheLimit plans, its first command again.
Commanded ==
    {Command(NextFresh)}
    \cup (IF Len(pl.cache) >= CacheLimit THEN {Command(1)} ELSE {})

\* A planner with the Ollama daemon configured and nothing cached.
FillInit ==
    /\ hw = FALSE
    /\ verbose = FALSE
    /\ limitsFile = NoLimitsFile
    /\ calibFile = NoCalibFile
    /\ refsFile = CatalogRefsFile
    /\ rc = [bus |-> FALSE, simulation |-> FALSE]
    /\ motor = StartPose
    /\ epc = "idle"
    /\ idx = 0
    /\ step = Step("", <<>>)
    /\ did_motion = FALSE
    /\ trace = <<>>
    /\ hist = {}
    /\ osenv = EnvDaemon
    /\ pl = NewPlanner
    /\ pcall = IdleCall
    /\ wk = IdleWorker
    /\ calls = 0
    /\ mutated = FALSE
    /\ used = <<>>

\* plan(user_text) is called and runs to its first wait or to its end.
FillCall(user_text) ==
    /\ pcall.pc \in {"idle", "returned", "raised"}
    /\ calls < MaxFills
    /\ calls' = calls + 1
    /\ mutated' = FALSE
    /\ Become(plan_enter(St, user_text))
    /\ UNCHANGED <<envVars, execVars, osenv>>

\* The backend answers every request with a plan.
FillNext ==
    \/ \E u \in Commanded : FillCall(u)
    \/ BackendReply(R_draw)

FillSpec == FillInit /\ [][FillNext]_vars

\* ------------------------------------------------- one call, every reply
\* The utterances of a single plan() call whose backend may answer with
\* every reply: imperatives, one of them with an operator sign, and a
\* question.
Asked == {U_wave, U_wave_plus, U_circle, U_hear}

AskInit ==
    /\ hw = FALSE
    /\ verbose = FALSE
    /\ limitsFile = NoLimitsFile
    /\ calibFile = NoCalibFile
    /\ refsFile = CatalogRefsFile
    /\ rc = [bus |-> FALSE, simulation |-> FALSE]
    /\ motor = StartPose
    /\ epc = "idle"
    /\ idx = 0
    /\ step = Step("", <<>>)
    /\ did_motion = FALSE
    /\ trace = <<>>
    /\ hist = {}
    /\ osenv \in Environments
    /\ pl = NewPlanner
    /\ pcall = IdleCall
    /\ wk = IdleWorker
    /\ calls = 0
    /\ mutated = FALSE
    /\ used = <<>>

\* The one plan() call of the behaviour.
AskCall(user_text) == calls = 0 /\ PlanCall(user_text)

AskNext ==
    \/ \E u \in Asked : AskCall(u)
    \/ \E r \in Replies : BackendReply(r)
    \/ BackendError
    \/ WorkerRun
    \/ \E r \in Replies : WorkerReply(r)
    \/ WorkerError
    \/ FutureDone
    \/ FutureTimeout

AskSpec == AskInit /\ [][AskNext]_vars


\* ========================================================== claims, planner
\* The exits of plan() that come before any generation call.
EarlyExits == {"blank", "cache", "stop", "arith", "preference", "failed"}

\* C1: for every input text and every behaviour of the backend, plan(text)
\* returns a plan; it never leaves by an exception.
C1_PlanNeverRaises == pcall.pc # "raised"

\* C2: with an embedded model, a remote endpoint or the local daemon
\* configured, the first plan() call of a planner that passes the fast paths
\* and the cache, and none of whose waits runs into the deadline, has sent
\* its prompt to the backend by the time it returns, which it must have to
\* return the steps the backend answers with.
C2_BackendInvoked ==
    (/\ pcall.pc = "returned" /\ calls = 1 /\ ~pcall.timed_out
     /\ osenv \in {EnvEmbedded, EnvRemote, EnvDaemon}
     /\ pcall.ret.via \notin EarlyExits)
        => pcall.sent > 0

\* C3: a plan() call none of whose generation calls was answered returns
\* exactly the plan _rule_plan gives for the same text.
C3_FailureGivesRulePlan ==
    (pcall.pc = "returned" /\ ~pcall.answered /\ pcall.ret.via # "cache")
        => pcall.ret.plan = rule_plan(pcall.text)

JointRange(j) == IF j \in DOMAIN limits THEN limits[j] ELSE <<0, 4095>>

InRange(e) == JointRange(e.j)[1] <= e.p /\ e.p <= JointRange(e.j)[2]

\* The trace is that of the step consumed last.
AfterStep == epc \in {"running", "raised"} /\ idx > 0

\* Some numeric argument of the step is a value int()/float() rejects.
RECURSIVE AnyBadPair(_)
AnyBadPair(d) ==
    d # <<>> /\ (~IsNum(Head(d)[2]) \/ AnyBadPair(Tail(d)))

Malformed(s) ==
    LET args == StepArgs(s)
        name == StepName(s)
        BadArg(k) == Has(args, k) /\ ~IsNum(args[k])
    IN  \/ name = "wave" /\ BadArg("repetitions")
        \/ name = "wait" /\ BadArg("seconds")
        \/ name = "move_joint" /\ BadArg("position")
        \/ name = "tap_morse" /\ BadArg("unit_ms")
        \/ name = "draw_shape" /\ BadArg("size_mm")
        \/ name = "move_joints" /\ AnyBadPair(Arg(args, "values", <<>>))
        \/ name = "relative_move" /\ AnyBadPair(Arg(args, "deltas", <<>>))

\* C5: whatever position move_joint, move_joints or relative_move is asked
\* for, and whether or not the limits list the joint, the value written to
\* the bus or to the simulation log lies within the joint's range.
C5_ClampingInvariant ==
    (AfterStep /\ StepName(step) \in {"move_joint", "move_joints",
                                      "relative_move"})
        => \A i \in 1..Len(trace) :
               trace[i].k \in {"write", "simlog"} => InRange(trace[i])

\* C6: every Goal_Position write that reaches the bus from inside go_home,
\* wave, dance, draw_shape and tap_morse lies within the range of the joint
\* written.
C6_PrimitiveWritesClamped ==
    (\/ AfterStep /\ StepName(step) \in {"wave", "dance", "draw_shape",
                                         "tap_morse"}
     \/ epc = "done")
        => \A i \in 1..Len(trace) : trace[i].k = "write" => InRange(trace[i])

\* The motors at the calibrated home pose.
AtHome == \A i \in 1..Len(rest_pose) : motor[rest_pose[i][1]] = rest_pose[i][2]

\* C7: when execute_plan has run to its end on a plan that held a joint or
\* gesture step, its last act was a go_home, and the motors of a connected
\* arm are at the home pose.
C7_HomeReturn ==
    (epc = "done" /\ "motion" \in hist)
        => /\ trace # <<>>
           /\ trace[1] = Ev("call", "go_home", 0)
           /\ (rc.bus => AtHome)

\* C8: a step whose name is none of the tool names writes nothing, pauses
\* nothing, says nothing and raises nothing, and the loop goes on to the
\* step after it.
C8_UnknownStepSkipped ==
    [][(epc = "running" /\ idx' = idx + 1 /\ StepName(step') \notin ToolNames)
        => /\ epc' = "running"
           /\ trace' = <<>>
           /\ rc' = rc
           /\ motor' = motor
           /\ did_motion' = did_motion]_vars

\* C8 witness: the step after an unknown one is a wave, and the wave has
\* written to the wrist.
C8_Witness ==
    /\ epc = "running" /\ idx = 2
    /\ "unknown" \in hist
    /\ StepName(step) = "wave"
    /\ \E i \in 1..Len(trace) :
           trace[i].k = "write" /\ trace[i].j = "wrist_roll"

\* C9: a step with a known name and a malformed argument raises nothing
\* out of execute_plan.
C9_MalformedArgsDropped ==
    (AfterStep /\ StepName(step) \in ToolNames /\ Malformed(step))
        => epc # "raised"

\* The step consumed last could not run for a reason outside the
\* primitives: a malformed argument, or a catalogue that does not parse.
InputFault ==
    \/ Malformed(step)
    \/ /\ StepName(step) \in {"dance", "reference_motion"}
       /\ load_references(refsFile).raised

\* C10: in simulation mode no primitive attempts a write on the absent bus,
\* and none raises.
C10_SimulationRunsQuietly ==
    rc.simulation
        => /\ \A i \in 1..Len(trace) : trace[i].k # "nullwrite"
           /\ (epc = "raised" => InputFault)

\* ------------------------------------------------------- claims, the cache
\* C11: when plan(text) is called again with the text of the call before
\* and is answered without a backend, from the cache, it returns a plan
\* equal to the one that call returned, whatever the caller did to the
\* returned list in between.
C11_SecondCallReturnsSamePlan ==
    [][(/\ pcall.pc = "returned"
        /\ calls' = calls + 1
        /\ pcall'.text = pcall.text
        /\ pcall'.ret.via = "cache")
           => pcall'.ret.plan = pcall.ret.plan]_vars

\* C12: after a cache hit the cached entry is what was returned, whatever
\* the caller does to the returned steps and their args.
C12_CacheHitSharesNothing ==
    (/\ pcall.pc = "returned"
     /\ pcall.ret.via = "cache"
     /\ CacheHas(pl.cache, pcall.text))
        => CacheGet(pl.cache, pcall.text) = pcall.ret.plan

\* --------------------------------------------------- claims, early exits
StopWords == {<<"s", "t", "o", "p">>, <<"e", "x", "i", "t">>, <<"q", "u", "i", "t">>}

\* The running or finished call was made with blank text or a stop word.
CalledWithStop ==
    pcall.pc # "idle" /\ (pcall.text = <<>> \/ lower(pcall.text) \in StopWords)

\* C13: a plan() call with blank text or a stop word has returned the empty
\* plan without a backend request and never waits, whatever the cache
\* holds and whatever the planner's flags are.
C13_StopGivesEmptyPlan ==
    CalledWithStop =>
        /\ pcall.pc = "returned"
        /\ pcall.ret.plan = <<>>
        /\ pcall.sent = 0

\* A stop word as the second call, on a planner with a filled cache.
C13_Witness ==
    /\ CalledWithStop /\ pcall.text # <<>>
    /\ calls = 2 /\ pl.cache # <<>>
    /\ pcall.ret.via = "stop" /\ pcall.ret.plan = <<>>

\* ------------------------------------------------------ claims, morse timing
\* The wrist positions of a tap, as tap_morse reads them.
TapPose ==
    [down |-> IF Has(calib.tap, "wrist_flex_down")
              THEN calib.tap.wrist_flex_down ELSE 2048 + 140,
     up |-> IF Has(calib.tap, "wrist_flex_up")
            THEN calib.tap.wrist_flex_up ELSE 2048]

Span(k, us) == [k |-> k, us |-> us]

\* The timeline of the taps in the events ev: how long each tap was held
\* down ("hold": from the write of the down position to the write of the up
\* position) and how long the arm rested between two taps ("gap"), in
\* microseconds.  What precedes the first tap and follows the last is left
\* out.
RECURSIVE Timeline(_, _, _, _)
Timeline(ev, held, acc, out) ==
    IF ev = <<>> THEN out
    ELSE LET e == Head(ev)
             wrist == e.k \in {"write", "simlog"} /\ e.j = "wrist_flex"
         IN  IF e.k = "sleep" THEN Timeline(Tail(ev), held, acc + e.p, out)
             ELSE IF wrist /\ ~held /\ e.p = TapPose.down
             THEN Timeline(Tail(ev), TRUE, 0,
                           IF out = <<>> THEN out
                           ELSE Append(out, Span("gap", acc)))
             ELSE IF wrist /\ held /\ e.p = TapPose.up
             THEN Timeline(Tail(ev), FALSE, 0, Append(out, Span("hold", acc)))
             ELSE Timeline(Tail(ev), held, acc, out)

\* The timeline the Morse ratio asks for, unit u microseconds: a dot held
\* 1 u, a dash 3 u, 1 u between the symbols of a letter.
RECURSIVE LetterLaw(_, _)
LetterLaw(token, u) ==
    IF token = <<>> THEN <<>>
    ELSE <<Span("hold", IF Head(token) = "." THEN u ELSE 3 * u)>>
         \o (IF Tail(token) = <<>> THEN <<>> ELSE <<Span("gap", u)>>)
         \o LetterLaw(Tail(token), u)

\* ... 3 u between two letters and 7 u between two words.
RECURSIVE MorseLaw(_, _, _, _)
MorseLaw(sequence, u, pending, out) ==
    IF sequence = <<>> THEN out
    ELSE IF Head(sequence) = <<" ">>
    THEN MorseLaw(Tail(sequence), u, 7 * u, out)
    ELSE MorseLaw(Tail(sequence), u, 3 * u,
                  (IF out = <<>> THEN out ELSE Append(out, Span("gap", pending)))
                  \o LetterLaw(Head(sequence), u))

\* The step just executed was a tap_morse that ran to its end.
Tapped ==
    /\ epc = "running" /\ idx > 0
    /\ StepName(step) = "tap_morse"
    /\ IsNum(Arg(StepArgs(step), "unit_ms", Num(150)))

TappedUnit == Arg(StepArgs(step), "unit_ms", Num(150))[2] * 1000

\* C14: the taps of a tap_morse step keep the Morse ratio: every dot is
\* held 1 unit and every dash 3 units, with 1 unit between the symbols of a
\* letter, 3 units between letters and 7 units between words.
C14_MorseTimingLaw ==
    Tapped =>
        Timeline(trace, FALSE, 0, <<>>)
            = MorseLaw(to_morse(Arg(StepArgs(step), "text", <<"s", "o", "s">>)),
                       TappedUnit, 0, <<>>)

\* ----------------------------------------------- claims, preference questions
\* The preference questions plan() is called with, and the answers to them:
\* one tap_morse step with one of the two options.
PreferenceQuestions == {U_better_mid, U_better_end}

PreferenceAnswers ==
    {<<Step("tap_morse", [text |-> <<"c", "a", "t", "s">>])>>,
     <<Step("tap_morse", [text |-> <<"d", "o", "g", "s">>])>>}

\* A call with a preference question has returned, no backend request of it
\* was answered, and its result was not taken from the cache.
PreferenceAsked ==
    /\ pcall.pc = "returned"
    /\ pcall.text \in PreferenceQuestions
    /\ ~pcall.answered
    /\ pcall.ret.via # "cache"

\* C15: with the backends failing, plan() answers a preference question
\* with exactly one tap_morse step carrying one of the two options, and a
\* repeated call returns the same plan.
C15_PreferenceAnswerStable ==
    /\ [](PreferenceAsked => pcall.ret.plan \in PreferenceAnswers)
    /\ [][(PreferenceAsked /\ PreferenceAsked' /\ pcall'.text = pcall.text)
             => pcall'.ret.plan = pcall.ret.plan]_vars


\* ------------------------------------------------------- claims, arithmetic
\* The answer to the restricted expression of the text of the running or
\* finished call.
AskedSum == ArithAnswer(lower(pcall.text))

\* C16: a call whose text holds an arithmetic operator, in words or as a
\* sign, and whose restricted expression evaluates to a number returns one
\* tap_morse step with the result, without a backend request and without
\* waiting for one, whatever state the planner is in.
C16_ArithmeticAnsweredAtOnce ==
    (pcall.pc \in {"wait", "returned"} /\ AskedSum.found) =>
        /\ pcall.pc = "returned"
        /\ pcall.ret.plan = <<Step("tap_morse", [text |-> AskedSum.text])>>
        /\ pcall.sent = 0


\* -------------------------------------------------------- claims, rule plan
\* _rule_plan was called with the text pcall.text; Said is that text as the
\* rules see it, lower-cased and stripped.
RuleAnswered == pcall.pc = "returned" /\ pcall.ret.via = "rule_plan"

Said == strip(lower(pcall.text))

\* C17: a command that is no question and names the gripper, "open" and
\* "close", and no wave, gets the plan open_gripper, wait 0.4 s,
\* close_gripper, in this order.
C17_OpenThenClose ==
    (/\ RuleAnswered
     /\ ~EndsWith(Said, <<"?">>)
     /\ Contains(Said, <<"g", "r", "i", "p", "p", "e", "r">>)
     /\ Contains(Said, <<"o", "p", "e", "n">>) /\ Contains(Said, <<"c", "l", "o", "s", "e">>)
     /\ ~Contains(Said, <<"w", "a", "v", "e">>))
        => pcall.ret.plan = <<Step("open_gripper", <<>>),
                              Step("wait", [seconds |-> Num(400000)]),
                              Step("close_gripper", <<>>)>>

\* "open the gripper then close it" has been answered.
C17_Witness ==
    /\ RuleAnswered
    /\ pcall.text = <<"o", "p", "e", "n", " ", "t", "h", "e", " ", "g", "r", "i", "p", "p", "e", "r", " ", "t", "h", "e", "n", " ", "c", "l", "o", "s", "e", " ", "i", "t">>
    /\ Len(pcall.ret.plan) = 3

\* C18: _rule_plan returns for every text, and what it returns is the
\* empty plan exactly when the text, lower-cased and stripped, is blank or
\* one of stop, exit, quit.
C18_EmptyOnlyOnStop ==
    RuleAnswered =>
        (pcall.ret.plan = <<>>
            <=> (Said = <<>> \/ Said \in {<<"s", "t", "o", "p">>, <<"e", "x", "i", "t">>, <<"q", "u", "i", "t">>}))

\* "Stop " has been answered with the empty plan, and so has "quit?" with
\* a plan that is not empty.
C18_Witness ==
    /\ RuleAnswered
    /\ \/ pcall.text = <<"S", "t", "o", "p", " ">> /\ pcall.ret.plan = <<>>
       \/ pcall.text = <<"q", "u", "i", "t", "?">> /\ pcall.ret.plan # <<>>


\* ------------------------------------------------ claims, generation calls
\* C19: one plan() call makes at most two generation calls, the first
\* attempt and one reprompt.
C19_AtMostTwoGenerationCalls == pcall.gens <= 2

\* The generation calls nobody has the result of yet: the jobs in the
\* executor's queue, the job its thread is in, and the _gen plan() is in on
\* the caller's thread.
Outstanding ==
    Len(wk.queue)
    + (IF wk.run # NoJob THEN 1 ELSE 0)
    + (IF pcall.pc = "wait" /\ pcall.mode = "direct" THEN 1 ELSE 0)

\* C20: plan() never runs a generation call itself, it waits for the
\* worker's; and at most one generation call is outstanding.
C20_OneCallInTheWorker ==
    /\ pcall.pc = "wait" => pcall.mode = "future"
    /\ Outstanding <= 1


\* ------------------------------------------------- claims, simulation mode
\* C21: a controller that has gone into simulation mode, after connect()
\* failed, is in simulation mode ever after, without a bus.
C21_SimulationIsForGood ==
    [][(rc.simulation /\ ~rc.bus) => (rc'.simulation /\ ~rc'.bus)]_vars


\* --------------------------------------------------- claims, cache bounds
\* C22: the cache never holds more than 64 plans.
C22_CacheHoldsAtMostLimit == Len(pl.cache) <= CacheLimit

\* C23: the text a cache write evicts is the one whose last read or write
\* is the oldest.
C23_EvictsLeastRecentlyUsed ==
    [][\A i \in 1..Len(pl.cache) :
          ~CacheHas(pl'.cache, pl.cache[i][1]) => pl.cache[i][1] = used[1]]_vars


\* ------------------------------------------------------ claims, reprompt
\* The reply raw gives no valid step: it holds no JSON object, or an object
\* without a plan list, or a plan list without a valid entry.
NoValidStep(raw) ==
    LET checked(obj) ==
            obj.raises \/ ~obj.isList \/ Cleaned(obj.items) = <<>>
        parsed(m) == m = <<>> \/ checked(JsonLoads(m))
    IN  parsed(FirstJsonObject(raw))

\* plan() has returned, and its first generation call had given a text
\* without a valid step.
FirstReplyUseless ==
    pcall.pc = "returned" /\ pcall.raw # <<>> /\ NoValidStep(pcall.raw)

\* C24: when the first reply gives no valid step, plan() makes the reprompt
\* call, and exactly that one call more before it leaves by the repair, the
\* salvage or the rules.
C24_UselessReplyIsReprompted ==
    FirstReplyUseless =>
        /\ pcall.gens >= 2
        /\ pcall.ret.via \in {"repair", "salvage", "rule"} => pcall.gens = 2


\* ---------------------------------------------------- claims, refinement
\* The steps the reply raw gives.
StepsOf(raw) ==
    LET checked(obj) ==
            IF obj.raises \/ ~obj.isList THEN <<>> ELSE Cleaned(obj.items)
        parsed(m) == IF m = <<>> THEN <<>> ELSE checked(JsonLoads(m))
    IN  parsed(FirstJsonObject(raw))

Imperatives == {strip(U_wave), strip(U_circle)}

\* plan() has returned from an imperative whose first reply was the single
\* step reference_motion yes.
YesForImperative ==
    /\ pcall.pc = "returned"
    /\ pcall.text \in Imperatives
    /\ TrivialYes(StepsOf(pcall.raw))

\* C25: the trivial yes for an imperative is followed by one refinement
\* call and no other; unless the refinement gave a better plan, plan()
\* returns the yes step.
C25_OneRefinement ==
    YesForImperative =>
        /\ pcall.gens = 2
        /\ pcall.ret.via # "refined" =>
              pcall.ret.plan = <<Step("reference_motion", [name |-> "yes"])>>


\* ----------------------------------------------- claims, abandoned worker
\* The worker is in a job whose wait ran into the deadline, and leaves it
\* in this step.
AbandonedJobEnds == wk.run # NoJob /\ ~wk.run.live /\ wk'.run # wk.run

\* C26: what an abandoned job comes to goes nowhere: the step in which it
\* ends changes neither the plan() call (its future, its locals, its return
\* value) nor the cache nor the origin of the last plan.
C26_AbandonedResultUnused ==
    [][AbandonedJobEnds =>
          /\ pcall' = pcall
          /\ pl'.cache = pl.cache
          /\ pl'.last_origin = pl.last_origin]_vars

\* The worker is in the last request of an abandoned job while the next
\* plan() call waits for the future of its own job, queued behind it.
C26_Witness ==
    /\ wk.run # NoJob /\ ~wk.run.live /\ wk.g.st # "off"
    /\ calls = 2 /\ pcall.pc = "wait" /\ pcall.mode = "future"
    /\ wk.queue # <<>>


\* ------------------------------------------------ claims, reference motion
\* The step consumed last was a reference_motion naming a motion of the
\* catalogue, and it was played.
PlayedName == Lower(Arg(StepArgs(step), "name", ""))

Played ==
    /\ AfterStep /\ epc = "running"
    /\ StepName(step) = "reference_motion"
    /\ ~load_references(refsFile).raised
    /\ get_motion(PlayedName, load_references(refsFile)) # <<>>

\* What moving to a pose leaves in the trace: one clamped write per joint in
\* the order of the pose, on the bus, or in the log when there is no bus.
Moved(pose) ==
    [i \in 1..Len(pose) |->
        Ev(IF rc.bus THEN "write" ELSE "simlog", pose[i][1],
           IF pose[i][1] \in DOMAIN limits
           THEN Max(limits[pose[i][1]][1], Min(limits[pose[i][1]][2], pose[i][2]))
           ELSE pose[i][2])]

\* The steps of a motion in list order, each with its pause, no longer than
\* 5 s.
RECURSIVE PlayedLaw(_)
PlayedLaw(steps) ==
    IF steps = <<>> THEN <<>>
    ELSE Moved(Head(steps).positions)
         \o (IF Head(steps).duration > 0
             THEN <<Ev("sleep", "", Min(Head(steps).duration, 5000000))>>
             ELSE <<>>)
         \o PlayedLaw(Tail(steps))

PlayedHome ==
    IF calib.home_pose # <<>> THEN calib.home_pose
    ELSE load_references(refsFile).home_pose

\* C27: a reference motion of the catalogue is played as the home pose, the
\* steps of the motion in list order, each followed by its pause of at most
\* 5 s, and the home pose again (the home poses are followed by pauses of
\* 0.6 s and 0.8 s).
C27_ReferenceMotionOrder ==
    Played =>
        trace = Moved(PlayedHome) \o <<Ev("sleep", "", 600000)>>
                \o PlayedLaw(get_motion(PlayedName, load_references(refsFile)))
                \o Moved(PlayedHome) \o <<Ev("sleep", "", 800000)>>

\* The yes motion has been played on the bus, with joint limits that clamp
\* one of its positions, and its second pause cut to 5 s.
C27_Witness ==
    /\ Played /\ rc.bus /\ limitsFile = NarrowLimitsFile
    /\ \E i \in 1..Len(trace) : trace[i] = Ev("sleep", "", 5000000)
    /\ \E i \in 1..Len(trace) : trace[i] = Ev("write", "wrist_flex", 2150)


\* The catalogue was read, or there is none, and it does not hold the name
\* the reference_motion step s asks for.
Missing(s) ==
    /\ StepName(s) = "reference_motion"
    /\ ~load_references(refsFile).raised
    /\ get_motion(Lower(Arg(StepArgs(s), "name", "")),
                  load_references(refsFile)) = <<>>

\* C28: a reference_motion step whose name the catalogue does not hold
\* writes nothing, pauses nothing and raises nothing, does not count as a
\* motion, and the loop goes on to the step after it.
C28_MissIsNoError ==
    [][(epc = "running" /\ idx' = idx + 1 /\ Missing(step'))
        => /\ epc' = "running"
           /\ trace' = <<>>
           /\ rc' = rc
           /\ motor' = motor
           /\ did_motion' = did_motion]_vars

\* A connected arm has passed over the moonwalk, which the catalogue with
\* its yes and dance motions does not hold, after it had moved.
C28_Witness ==
    /\ epc = "running" /\ idx = 2 /\ rc.bus
    /\ refsFile = CatalogRefsFile
    /\ Missing(step) /\ PlayedName = "moonwalk"
    /\ trace = <<>> /\ did_motion


\* ---------------------------------------------------- claims, relative move
\* The step consumed last was a relative_move that ran to its end on the
\* bus.
RelativeMoved ==
    AfterStep /\ epc = "running" /\ rc.bus /\ StepName(step) = "relative_move"

RelativeDeltas == Arg(StepArgs(step), "deltas", <<>>)

\* The value p brought into the range of joint j.
ClampTo(j, p) == Max(JointRange(j)[1], Min(JointRange(j)[2], p))

\* What the claim has relative_move write: for every joint of deltas, in
\* their order, the calibrated home value plus the delta, clamped.
RelativeLaw(deltas) ==
    [i \in 1..Len(deltas) |->
        Ev("write", deltas[i][1],
           ClampTo(deltas[i][1],
                   PairGet(calib.home_pose, deltas[i][1], 2048)
                   + deltas[i][2][2]))]

\* C29: relative_move writes the clamped sum of home value and delta for
\* every joint of deltas, whatever the motors' positions; the same
\* relative_move applied a second time leaves the motors as they are.
C29_RelativeToHome ==
    /\ [](RelativeMoved => trace = RelativeLaw(RelativeDeltas))
    /\ [][(RelativeMoved /\ RelativeMoved' /\ idx' = idx + 1 /\ step' = step)
             => motor' = motor]_vars


\* ------------------------------------------------- claims, gestures and home
\* The step consumed last entered wave, dance or draw_shape of the
\* controller, and the primitive ran to its end.
Gestured ==
    /\ AfterStep /\ epc = "running" /\ trace # <<>>
    /\ trace[1].k = "call" /\ trace[1].j \in {"wave", "dance", "draw_shape"}

\* Where in the trace go_home was entered.
HomeCalls == {i \in 1..Len(trace) : trace[i] = Ev("call", "go_home", 0)}

\* The joint writes of the primitive itself: those that are not the
\* rest-pose writes of a go_home.
OwnWrites ==
    {i \in 1..Len(trace) :
        /\ trace[i].k = "write"
        /\ ~\E h \in HomeCalls : h < i /\ i <= h + Len(rest_pose)}

\* C30: each of wave, dance and draw_shape calls go_home before its first
\* joint write and again after its last joint write.
C30_HomeBeforeAndAfter ==
    Gestured =>
        \E h1, h2 \in HomeCalls :
            /\ h1 < h2
            /\ \A i \in OwnWrites : h1 < i /\ i < h2

\* wave does: its own writes lie between two go_home calls.
C30_WaveBracketed ==
    (Gestured /\ trace[1].j = "wave") =>
        \E h1, h2 \in HomeCalls :
            /\ h1 < h2
            /\ \A i \in OwnWrites : h1 < i /\ i < h2

\* dance and draw_shape call go_home once, before their first write.
C30_OthersHomeFirstOnly ==
    (Gestured /\ trace[1].j \in {"dance", "draw_shape"}) =>
        /\ HomeCalls = {2}
        /\ \A i \in OwnWrites : 2 < i

C30_WaveWrote == Gestured /\ trace[1].j = "wave" /\ OwnWrites # {}

C30_DanceWrote == Gestured /\ trace[1].j = "dance" /\ OwnWrites # {}


\* ------------------------------------------------------- claims, waiting
\* The pauses taken for a wait by the step consumed last: the pause of a
\* wait step, the pauses of the {wait} sub-steps of a trajectory (its other
\* sub-steps do not pause).
WaitPauses ==
    IF AfterStep /\ StepName(step) \in {"wait", "trajectory"}
    THEN {trace[i].p : i \in {n \in 1..Len(trace) : trace[n].k = "sleep"}}
    ELSE {}

\* C31: no pause execute_plan takes for a wait, as a step or as a sub-step
\* of a trajectory, is negative or longer than 10 seconds.
C31_WaitAtMostTenSeconds == \A p \in WaitPauses : 0 <= p /\ p <= 10000000

\* The wait steps keep to it.
C31_WaitStepCapped ==
    (AfterStep /\ StepName(step) = "wait") =>
        \A p \in WaitPauses : 0 <= p /\ p <= 10000000


\* ------------------------------------------------------- claims, tapping
\* The tap_morse consumed last ran on the bus.
TappedOnBus == Tapped /\ rc.bus

\* The safe-lift pose of the calibration, <<>> when it has none.
SafeLiftPose ==
    IF Has(calib.tap, "safe_lift_pose") THEN calib.tap.safe_lift_pose ELSE <<>>

\* The motors named by the pose are where the pose has them.
MotorsAt(pose) == \A i \in 1..Len(pose) : motor[pose[i][1]] = pose[i][2]

\* C32: when tap_morse returns, the arm is at the calibrated safe-lift pose
\* if calibration supplies one, otherwise at the full home pose.
C32_TapEndsSafe ==
    TappedOnBus => IF SafeLiftPose # <<>> THEN MotorsAt(SafeLiftPose) ELSE AtHome

\* With a safe-lift pose the arm ends there.
C32_TapEndsAtSafeLift ==
    (TappedOnBus /\ SafeLiftPose # <<>>) => MotorsAt(SafeLiftPose)

\* Without one the arm is at home but for wrist_flex, left at the "up"
\* position of the last tap.
C32_TapEndsAtUp ==
    (TappedOnBus /\ SafeLiftPose = <<>>) =>
        \A i \in 1..Len(rest_pose) :
            rest_pose[i][1] # "wrist_flex"
                => motor[rest_pose[i][1]] = rest_pose[i][2]


\* ------------------------------------------------ claims, early acceptance
\* The first stream of a _gen call on the daemon ended with content; the
\* call now waits for its second stream.
SecondStream(g) == g.st = "s2" /\ g.c1 # <<>>

\* That content was accepted early: _early_balance returns it as it is.
AcceptedEarly(g) ==
    SecondStream(g) /\ early_balance(g.c1, pl.expect_multi) = g.c1

\* The text holds a "plan" key.
HasPlanKey(s) == Contains(s, <<"\"", "p", "l", "a", "n", "\"">>)

\* C33: _early_balance accepts a prefix of the stream only when it holds a
\* balanced JSON object that has a plan key; a balanced object without a
\* plan key is never accepted early.
C33_EarlyOnlyWithPlanKey ==
    \A g \in {pcall.g, wk.g} : AcceptedEarly(g) => HasPlanKey(g.c1)

\* What is accepted early is a balanced object that json.loads accepts.
C33_EarlyIsBalancedObject ==
    \A g \in {pcall.g, wk.g} :
        AcceptedEarly(g) =>
            /\ balanced_slice(g.c1) = g.c1
            /\ ~JsonLoads(g.c1).raises


\* ------------------------------------------------- claims, returned steps
\* plan() has returned model output: the validated plan of the first reply
\* or of the reprompt, or the plan of the refinement.
ModelOutput == pcall.pc = "returned" /\ pcall.ret.via \in {"llm", "refined"}

\* A reference_motion step that carries its motion under "motion".
Unrenamed(s) ==
    /\ s.call = "reference_motion"
    /\ Has(s.args, "motion") /\ ~Has(s.args, "name")

\* The backend's reply r to the refinement request makes plan() return
\* the refinement.
RefinedFrom(r) ==
    /\ pcall.stage \in {"refine_w", "refine_d"}
    /\ WorkerReply(r) \/ BackendReply(r)
    /\ pcall'.pc = "returned" /\ pcall'.ret.via = "refined"

\* C34: on every path that returns model output the entries that are no
\* mappings or have no textual call or action are dropped, action is
\* accepted as call, and the motion of a reference_motion entry is renamed
\* to name.
C34_ReturnedStepsValidated ==
    /\ [](ModelOutput =>
            \A i \in 1..Len(pcall.ret.plan) : ~Unrenamed(pcall.ret.plan[i]))
    /\ [][\A r \in Replies :
            RefinedFrom(r) =>
                pcall'.ret.plan = Cleaned(JsonLoads(GreedyObject(r)).items)]_vars

\* The first attempt and the reprompt keep to it.
C34_ValidatedUnlessRefined ==
    (ModelOutput /\ pcall.ret.via = "llm") =>
        \A i \in 1..Len(pcall.ret.plan) : ~Unrenamed(pcall.ret.plan[i])


\* ------------------------------------------------------- claims, origin
\* The names last_origin may carry for a plan that left plan() by the
\* given pathway.  The model's plans, first, cached or refined, are "llm";
\* the plans of the fast paths and of the rules are "rule"; a repaired plan
\* may be named on its own or with the salvaged ones.
OriginNames(via) ==
    CASE via \in {"llm", "refined", "cache"} -> {"llm"}
      [] via = "repair" -> {"repaired", "salvage"}
      [] via = "salvage" -> {"salvage"}
      [] OTHER -> {"rule"}

\* plan() has returned a plan with steps.
ReturnedSteps ==
    pcall.pc = "returned" /\ pcall.ret.kind = "plan" /\ pcall.ret.plan # <<>>

\* C35: after every plan() call that returns a plan with steps, last_origin
\* names the pathway that produced this plan, never a value left from an
\* earlier call.
C35_OriginOfReturnedPlan ==
    ReturnedSteps => pl.last_origin \in OriginNames(pcall.ret.via)

\* The pathways that assign last_origin before they return.
C35_OriginWhereAssigned ==
    (ReturnedSteps /\ pcall.ret.via \in {"llm", "rule", "repair", "salvage"})
        => pl.last_origin \in OriginNames(pcall.ret.via)


\* ------------------------------------------ the generation-free stages
\* Prose a backend may answer with instead of a plan: the replies without
\* an object, a word only _salvage_plan knows, and words of several tools.
R_shrug == <<"s", "h", "r", "u", "g">>
R_chop == <<"k", "a", "r", "a", "t", "e", " ", "c", "h", "o", "p", ",", " ", "t", "h", "e", "n", " ", "d", "a", "n", "c", "e">>
Prose == {R_prose_wave, R_prose, R_empty, R_shrug, R_chop}

\* (raw_force or '') + '\n' + raw, what plan() hands to the heuristics.
Heard == {a \o <<"\n">> \o b : a \in Prose, b \in Prose}

StageInit ==
    /\ hw = FALSE
    /\ verbose = FALSE
    /\ limitsFile = NoLimitsFile
    /\ calibFile = NoCalibFile
    /\ refsFile = CatalogRefsFile
    /\ rc = [bus |-> FALSE, simulation |-> FALSE]
    /\ motor = StartPose
    /\ epc = "idle"
    /\ idx = 0
    /\ step = Step("", <<>>)
    /\ did_motion = FALSE
    /\ trace = <<>>
    /\ hist = {}
    /\ osenv = EnvSkipLocal
    /\ pl = NewPlanner
    /\ pcall = IdleCall
    /\ wk = IdleWorker
    /\ calls = 0
    /\ mutated = FALSE
    /\ used = <<>>

\* What a heuristic returns: its plan, or None.
Heuristic(text, raw, via, h) ==
    /\ pcall.pc = "idle"
    /\ pcall' = [IdleCall EXCEPT
                    !.pc = "returned", !.text = text, !.raw = raw,
                    !.ret = [kind |-> IF h.found THEN "plan" ELSE "none",
                             via |-> via, plan |-> h.plan]]
    /\ UNCHANGED <<envVars, execVars, osenv, pl, wk, calls, mutated, used>>

\* self._repair_to_json(text, raw)
StageRepair(text, raw) ==
    Heuristic(text, raw, "repair", repair_to_json(text, raw))

\* self._salvage_plan(text, raw)
StageSalvage(text, raw) ==
    Heuristic(text, raw, "salvage", salvage_plan(text, raw))

\* plan(user_text) of a planner that is to skip the local model and has no
\* backend: the fast paths, or the rule plan.
StageFast(user_text) == pcall.pc = "idle" /\ PlanCall(user_text)

StageNext ==
    \/ \E u \in Utterances, raw \in Heard : StageRepair(strip(u), raw)
    \/ \E u \in Utterances, raw \in Heard : StageSalvage(strip(u), raw)
    \/ \E text \in Commands : RuleCall(text)
    \/ \E u \in Utterances : StageFast(u)

StageSpec == StageInit /\ [][StageNext]_vars

\* ------------------------------------------------ claims, the tool grammar
\* plan() or one of its stages has returned a plan made without any
\* generation call.
GenerationFree ==
    /\ pcall.pc = "returned" /\ pcall.ret.kind = "plan" /\ pcall.gens = 0
    /\ pcall.ret.via \in {"arith", "preference", "repair", "salvage",
                          "rule", "rule_plan", "failed"}

\* The sub-steps of a trajectory step.
SubSteps(s) == Arg(StepArgs(s), "steps", <<>>)

\* The step is one execute_plan has a branch for, and so is each of its
\* sub-steps if it is a trajectory.
InGrammar(s) ==
    /\ StepName(s) \in ToolNames
    /\ Dispatch(Machine(rc), s) = KnownCall(Machine(rc), s)
    /\ StepName(s) = "trajectory" =>
          \A i \in 1..Len(SubSteps(s)) :
              \/ Has(SubSteps(s)[i], "wait")
              \/ Has(SubSteps(s)[i], "move_joints")
              \/ Has(SubSteps(s)[i], "relative_move")

\* C36: every step of a plan made by a generation-free stage (arithmetic
\* and preference fast paths, repair, salvage, rules) has a call of the tool
\* grammar, and every sub-step of a trajectory among them is a wait, a
\* move_joints or a relative_move: execute_plan skips none as unknown.
C36_StagesKeepToGrammar ==
    GenerationFree =>
        \A i \in 1..Len(pcall.ret.plan) : InGrammar(pcall.ret.plan[i])

\* _salvage_plan has returned a trajectory and reference motions.
C36_Witness ==
    /\ GenerationFree /\ pcall.ret.via = "salvage"
    /\ \E i \in 1..Len(pcall.ret.plan) :
          StepName(pcall.ret.plan[i]) = "trajectory"
    /\ \E i \in 1..Len(pcall.ret.plan) :
          StepName(pcall.ret.plan[i]) = "reference_motion"


\* ---------------------------------------------- claims, plans without motion
\* The plan consumed so far is empty or made of speak, wait, tap_morse and
\* steps of unknown names only.
Motionless == hist \subseteq {"passive", "unknown"}

\* C37: for a plan that is empty or made only of speak, wait, tap_morse and
\* unknown steps, execute_plan itself does not go home when the loop is
\* over: its end writes nothing, pauses nothing and leaves the connection
\* as it is; for the empty plan the whole run writes and pauses nothing.
C37_NoHomeWithoutMotion ==
    /\ []((epc = "done" /\ Motionless) => trace = <<>>)
    /\ []((epc = "done" /\ idx = 0) => motor = StartPose)
    /\ [][(epc = "running" /\ epc' = "done" /\ Motionless)
             => motor' = motor /\ rc' = rc]_vars

\* A plan of passive and unknown steps has run to its end on the bus, and
\* its tap_morse has moved the arm.
C37_Witness ==
    /\ epc = "done" /\ hist = {"passive", "unknown"}
    /\ rc.bus /\ motor # StartPose



\* ------------------------------------------------- claims, what is cached
\* The plans the light validation makes of the replies that hold an object.
ValidatedPlans ==
    {Cleaned(JsonLoads(FirstJsonObject(r)).items) :
        r \in {g \in Generated : FirstJsonObject(g) # <<>>}}

\* A step of plan() (not of its caller) has changed the cache.
PlanWroteCache == pl'.cache # pl.cache /\ ~(mutated' /\ ~mutated)

\* The call that has returned sent a request nobody answered and came to the
\* rule plan.
FellBackOnFailure ==
    /\ pcall.pc = "returned" /\ pcall.ret.via = "rule"
    /\ pcall.sent > 0 /\ ~pcall.answered

\* plan() is called again with the text of the call before.
CalledAgain == calls' = calls + 1 /\ pcall.text # <<>> /\ pcall'.text = pcall.text

\* C38: plan() writes only validated model output to the cache, never a plan
\* of the fast paths, of repair, of salvage or of the rules; and after a
\* call that fell back because its request failed, the next call with the
\* same text goes to the backend again.
C38_OnlyModelPlansCached ==
    /\ [][PlanWroteCache =>
             \E p \in ValidatedPlans :
                 pl'.cache = CacheStore(pl.cache, pcall'.text, p)]_vars
    /\ [][(FellBackOnFailure /\ CalledAgain) => pcall'.sent > 0]_vars

\* C38, the part of the exits: plan() writes the cache only where it leaves
\* by the validated path, and what it writes is the plan it returns.
C38_CacheWrittenOnAcceptOnly ==
    [][PlanWroteCache =>
          /\ pcall'.pc = "returned" /\ pcall'.ret.via = "llm"
          /\ pl'.cache = CacheStore(pl.cache, pcall'.text, pcall'.ret.plan)]_vars

\* C38, the part of the rule answer: the rule plan's tap_morse is cached in
\* the place of a validated plan only for a question.
C38_CachedIsModelOrRuleAnswer ==
    [][PlanWroteCache =>
          \E p \in ValidatedPlans :
              pl'.cache = CacheStore(pl.cache, pcall'.text,
                                     QuestionOverride(pcall'.text, p))]_vars



====
